---- MODULE Spec2Model ----
(***************************************************************************)
(* A model of the flow-calculation and aggregation engine of EPiC          *)
(* Grasshopper (src/epic/epic.py): the replacement scheduler, the          *)
(* EPiCAssembly flow calculator and the EPiCAnalysis / EPiCBuiltAsset      *)
(* aggregator.                                                             *)
(*                                                                         *)
(* Python values are modelled as tagged records [k, v]: the tag k is the   *)
(* Python type ("int", "float", "str", "dict", "obj", "none"), because the *)
(* code branches on isinstance().  Floats are modelled as exact rationals: *)
(* wastage fractions and flow values are carried in hundredths (a wastage  *)
(* of 10 % is the fraction 0.10, carried as 10; the base quantity 1. is    *)
(* carried as 100), quantities, coefficients and service lives in units.   *)
(* Floating-point rounding is not modelled.                                *)
(***************************************************************************)
EXTENDS Integers, Sequences, FiniteSets, TLC

VARIABLES
    rp_period,      \* SpecRepl: the period_of_analysis argument
    rp_service,     \* SpecRepl: the service_life argument
    rp_call,        \* SpecRepl: the function called last ("none" before any call)
    rp_ret,         \* SpecRepl: what that call returned or raised
    c_asm,          \* SpecCalc: the assembly under calculation
    c_ret,          \* SpecCalc: the last call on it, its arguments and its result
    assemblies,     \* Spec, SpecProc: the heap, the sequence of the assemblies constructed
    agg,            \* Spec: the built asset or analysis constructed last, or None
    n_args,         \* SpecNew: the arguments of EPiCAssembly(...)
    n_ret,          \* SpecNew: what the constructor returned or raised, None before the call
    n_calc,         \* SpecNew: the period and the result of calculate_flows on the new assembly
    p_assets,       \* SpecProc: the built assets constructed
    p_ret,          \* SpecProc: the call of process_inputs and its outcome, None before the call
    b_dicts,        \* SpecBreak: the breakdown dictionaries in memory, HYBRID_VALUE_BREAKDOWN_DICT first
    b_calls,        \* SpecBreak: the breakdowns asked for: the entity, the exception, the dictionary returned
    csv_files,      \* SpecCsv: the report files on disk, by <<folder, report name, version>>
    csv_ret,        \* SpecCsv: the last call of print_csv and its outcome, None before the first
    t_in,           \* SpecText: the field and the text the user supplied for it
    t_pc,           \* SpecText: "supplied", "constructed" or "written"; "idle" in the other runs
    t_stored,       \* SpecText: the attribute the constructor stored
    t_written,      \* SpecText: what the export wrote for the field, or None
    q_ret,          \* SpecDb: the last query of the database and its outcome, None before the first
    u_ret,          \* SpecUnit: the last construction with a functional unit and its outcome, or None
    s_objects,      \* SpecShare: the analyses and built assets constructed, in order
    s_made,         \* SpecShare: the flows of each of them as aggregated at its construction
    s_last,         \* SpecShare: for each assembly, the period of the operation that wrote it last
    v_pc,           \* SpecVer: where print_csv is: "idle", "search" (the while loop) or "open"
    v_counter,      \* SpecVer: counter of print_csv
    v_filepath,     \* SpecVer: filepath of print_csv, as <<folder, report name, version>>
    v_start,        \* SpecVer: the files on disk when the running call of print_csv began
    v_done,         \* SpecVer: the number of exports finished
    v_last,         \* SpecVer: the path, the loop steps and the files at the start of the last export
    sticky,         \* SpecList: the sticky dictionary of the host (st)
    l_items,        \* SpecList: ListItems of the material dropdown
    l_stack,        \* SpecList: the calls of recreate_material_list in progress, innermost last
    l_calls,        \* SpecList: the number of calls made
    l_last          \* SpecList: the call that returned last: what it found and what it left

replVars == <<rp_period, rp_service, rp_call, rp_ret>>

calcVars == <<c_asm, c_ret>>

aggVars == <<assemblies, agg>>

newVars == <<n_args, n_ret, n_calc>>

\* the variables of the runs defined after the aggregation runs
procVars == <<p_assets, p_ret>>

breakVars == <<b_dicts, b_calls>>

csvVars == <<csv_files, csv_ret>>

textVars == <<t_in, t_pc, t_stored, t_written>>

dbVars == <<q_ret>>

\* the variables of the runs defined after the text runs
unitVars == <<u_ret>>

shareVars == <<s_objects, s_made, s_last>>

verVars == <<v_pc, v_counter, v_filepath, v_start, v_done, v_last>>

listVars == <<sticky, l_items, l_stack, l_calls, l_last>>

lastVars == <<verVars, listVars>>

finalVars == <<dbVars, unitVars, shareVars, lastVars>>

laterVars == <<newVars, procVars, breakVars, csvVars, textVars, finalVars>>

vars == <<rp_period, rp_service, rp_call, rp_ret, c_asm, c_ret, assemblies, agg, laterVars>>

----------------------------------------------------------------------------
(* Python values *)

\* the element of a one-element set: The({e : x \in {v}}) is e with the value v,
\* computed once, named x
The(S) == CHOOSE e \in S : TRUE

\* a function as a table, each of its values computed once
Table(f) == f @@ <<>>

None == [k |-> "none", v |-> 0]

PyInt(n) == [k |-> "int", v |-> n]

PyFloat(n) == [k |-> "float", v |-> n]

\* a string is carried as the sequence of the parts that '/' joins
PyStr(s) == [k |-> "str", v |-> <<s>>]

PyDict(f) == [k |-> "dict", v |-> Table(f)]

PyObj(o) == [k |-> "obj", v |-> o]

EmptyDict == PyDict([x \in {} |-> None])

IsNumber(x) == x.k \in {"int", "float"}

\* bool(x) of a number or None
Truthy(x) == IF x.k = "none" THEN FALSE ELSE x.v # 0

\* a + b and a * b on numbers: the result is a float as soon as one operand is
NumType(a, b) == IF a.k = "float" \/ b.k = "float" THEN "float" ELSE "int"

PyAdd(x, y) == The({[k |-> NumType(a, b), v |-> a.v + b.v] : a \in {x}, b \in {y}})

PyMul(x, y) == The({[k |-> NumType(a, b), v |-> a.v * b.v] : a \in {x}, b \in {y}})

PyAbs(x) == The({[k |-> a.k, v |-> IF a.v < 0 THEN 0 - a.v ELSE a.v] : a \in {x}})

\* sum(list): starts from the int 0
RECURSIVE PySum(_)
PySum(list) ==
    The({IF Len(s) = 0 THEN PyInt(0) ELSE PyAdd(PySum(SubSeq(s, 1, Len(s) - 1)), s[Len(s)])
         : s \in {Table(list)}})

----------------------------------------------------------------------------
(* Replacement scheduler *)

Returned(x) == [exc |-> "none", val |-> x]

Raised(e) == [exc |-> e, val |-> None]

\* _get_num_replacements with the boundary replacement counted twice
OffByOneNumReplacements(period, service_life) ==
    IF service_life.k = "none" THEN Raised("TypeError")
    ELSE IF service_life.v >= period.v THEN Returned(PyInt(0))
    ELSE IF service_life.v = 0 THEN Raised("ZeroDivisionError")
    ELSE Returned(PyInt(period.v \div service_life.v))

\* _get_num_replacements(period_of_analysis, service_life).  In Python 2 None
\* compares below every number, so None >= period is False and the modulo raises
\* TypeError; a service life of 0 below the period divides by zero.
GetNumReplacements(period, service_life) ==
    IF service_life.k = "none" THEN Raised("TypeError")
    ELSE IF service_life.v >= period.v THEN Returned(PyInt(0))
    ELSE IF service_life.v = 0 THEN Raised("ZeroDivisionError")
    ELSE IF period.v % service_life.v = 0
         THEN Returned(PyInt((period.v \div service_life.v) - 1))
         ELSE Returned(PyInt(period.v \div service_life.v))

\* the slice assignment acc[start:] = [n + 1 for n in acc[start:]] (start >= 0)
BumpFrom(acc, start) == [i \in 1..Len(acc) |-> IF i - 1 >= start THEN acc[i] + 1 ELSE acc[i]]

RECURSIVE BumpReplacements(_, _, _, _)
BumpReplacements(acc, replacement, num_replacements, service_life) ==
    IF replacement > num_replacements THEN acc
    ELSE BumpReplacements(BumpFrom(acc, replacement * service_life),
                          replacement + 1, num_replacements, service_life)

\* _get_accumulated_number_of_instances(period_of_analysis, service_life, include_initial)
GetAccumulatedNumberOfInstances(period, service_life, include_initial) ==
    LET n    == IF period.v > 0 THEN period.v ELSE 0
        acc0 == [i \in 1..n |-> IF include_initial THEN 1 ELSE 0]
        reps == GetNumReplacements(period, service_life)
    IN  IF reps.exc # "none" THEN reps
        ELSE IF reps.val.v = 0 THEN Returned(acc0)
        ELSE Returned(BumpReplacements(acc0, 1, reps.val.v, service_life.v))

----------------------------------------------------------------------------
(* Dictionaries *)

Keys(d) == DOMAIN d.v

HasKey(d, key) == key \in DOMAIN d.v

\* d[key] = val
DictSet(dict, key, val) ==
    The({PyDict([x \in (DOMAIN d.v) \cup {key} |-> IF x = key THEN val ELSE d.v[x]]) : d \in {dict}})

\* d.get(key, default)
DictGet(dict, key, default) ==
    The({IF key \in DOMAIN d.v THEN d.v[key] ELSE default : d \in {dict}})

\* the merge that keeps dict_1 as it is
KeepFirstDictionary(dict_1, dict_2) == dict_1

\* sum_numerical_dictionary_values(dict_1, dict_2): a copy of dict_1 with the
\* numbers of dict_2 added in, nested dictionaries included (every key of dict_2
\* is a key of dict_1 where the code calls it)
RECURSIVE SumNumericalDictionaryValues(_, _)
SumNumericalDictionaryValues(dict_1, dict_2) ==
    The({PyDict([key \in DOMAIN d1.v |->
             IF key \notin DOMAIN d2.v THEN d1.v[key]
             ELSE IF IsNumber(d2.v[key]) THEN PyAdd(d1.v[key], d2.v[key])
             ELSE IF d2.v[key].k = "dict"
                  THEN SumNumericalDictionaryValues(d1.v[key], d2.v[key])
             ELSE d1.v[key]])
         : d1 \in {dict_1}, d2 \in {dict_2}})

----------------------------------------------------------------------------
(* Materials *)

\* DEFINED_FLOWS.keys()
Flows == {"energy", "water", "ghg"}

\* the number of hundredths in one unit: x / 100 of a float x is carried as x
\* hundredths, and the float 1. as Scale hundredths
Scale == 100

\* wastage / 100 (a float percentage)
Percent(x) == PyFloat(x.v)

\* EPiCMaterial.__init__: the fields the flow calculation reads
EPiCMaterial(name, energy, water, ghg, material_id, wastage, service_life) ==
    [name |-> name, energy |-> energy, water |-> water, ghg |-> ghg,
     wastage |-> IF Truthy(wastage) THEN Percent(wastage) ELSE PyInt(0),
     service_life |-> service_life, material_id |-> material_id]

----------------------------------------------------------------------------
(* EPiCAssembly *)

\* EPiCAssembly.template_flows.keys(), in order
BucketOrder == <<"initial", "initial_wastage", "recurrent", "recurrent_wastage",
                 "life_cycle", "life_cycle_wastage">>

Buckets == {BucketOrder[i] : i \in 1..Len(BucketOrder)}

\* 'wastage' in flow_type
WastageBuckets == {"initial_wastage", "recurrent_wastage", "life_cycle_wastage"}

\* 'recurrent' in flow_type
RecurrentBuckets == {"recurrent", "recurrent_wastage"}

\* 'life' in flow_type
LifeBuckets == {"life_cycle", "life_cycle_wastage"}

\* the wastage override of EPiCAssembly.__init__: a zero overrides, None does not
WastageOverride(wastage) ==
    IF Truthy(wastage) THEN Percent(PyAbs(wastage))
    ELSE IF wastage.k # "none" /\ wastage.v = 0 THEN PyFloat(0)
    ELSE None

\* the service-life override with a zero kept as an override, as for wastage
ServiceLifeKeepsZero(service_life) ==
    IF service_life.k = "none" THEN None ELSE PyAbs(service_life)

\* the service-life override of EPiCAssembly.__init__
ServiceLifeOverride(service_life) == IF Truthy(service_life) THEN PyAbs(service_life) ELSE None

\* one input of verify_input_and_calculate_geometry_units for the unit 'no.':
\* a number counts as its value, any other non-null input as 1
UnitValue(geometry) == IF IsNumber(geometry) THEN geometry ELSE PyInt(1)

\* the non-null inputs, in order (if geometry: a None or a zero is skipped)
RECURSIVE NonNullInputs(_)
NonNullInputs(selected_geometry) ==
    IF Len(selected_geometry) = 0 THEN <<>>
    ELSE LET rest == NonNullInputs(Tail(selected_geometry))
             g    == Head(selected_geometry)
         IN  IF g.k = "none" \/ (IsNumber(g) /\ g.v = 0) THEN rest ELSE <<g>> \o rest

\* verify_input_and_calculate_geometry_units returning total_units with its sign
VerifyInputWithSign(selected_geometry) ==
    LET inputs == NonNullInputs(selected_geometry)
        individual_units == [i \in 1..Len(inputs) |-> UnitValue(inputs[i])]
    IN  <<PySum(individual_units), individual_units>>

\* verify_input_and_calculate_geometry_units(selected_geometry, 'no.'):
\* <<total_units, individual_units>>
VerifyInputAndCalculateGeometryUnits(selected_geometry) ==
    LET inputs == NonNullInputs(selected_geometry)
        individual_units == [i \in 1..Len(inputs) |-> UnitValue(inputs[i])]
    IN  <<PyAbs(PySum(individual_units)), individual_units>>

\* the wastage factor with a zero override ignored (the material's own wastage used)
WastageFactorZeroIgnored(self, material, base_quantity) ==
    IF Truthy(self.wastage_override) THEN PyAdd(base_quantity, self.wastage_override)
    ELSE PyAdd(base_quantity, material.wastage)

\* the factor (base_quantity + wastage) of _calculate_flows: the assembly's
\* override when it is set, nothing when it is zero, else the material's own
WastageFactor(self, material, base_quantity) ==
    IF Truthy(self.wastage_override) THEN PyAdd(base_quantity, self.wastage_override)
    ELSE IF self.wastage_override.k # "none" /\ self.wastage_override.v = 0 THEN base_quantity
    ELSE PyAdd(base_quantity, material.wastage)

\* embodied_flow * _get_num_replacements(period, material.service_life), or 0.
\* when that raises ZeroDivisionError or TypeError
OwnReplacements(embodied_flow, period_of_analysis, material) ==
    LET n == GetNumReplacements(period_of_analysis, material.service_life)
    IN  IF n.exc = "none" THEN PyMul(embodied_flow, n.val) ELSE PyFloat(0)

\* the period branches with the assembly's service-life override ignored
RecurrentResultNoOverride(self, materials_list, result, period_of_analysis) ==
    IF period_of_analysis.k = "none" THEN result
    ELSE IF period_of_analysis.v = 0 THEN <<PyFloat(0)>>
    ELSE [i \in 1..Len(result) |->
             OwnReplacements(result[i], period_of_analysis, materials_list[i][1])]

\* the period branches with a period of 0 not forced to zero
RecurrentResultZeroNotForced(self, materials_list, result, period_of_analysis) ==
    IF period_of_analysis.k = "none" THEN result
    ELSE IF period_of_analysis.v = 0 THEN result
    ELSE IF Truthy(self.service_life)
         THEN [i \in 1..Len(result) |->
                 PyMul(result[i], GetNumReplacements(period_of_analysis, self.service_life).val)]
    ELSE [i \in 1..Len(result) |->
             OwnReplacements(result[i], period_of_analysis, materials_list[i][1])]

\* the period branches of _calculate_flows, applied to the per-material results
RecurrentResult(self, materials_list, result, period_of_analysis) ==
    IF period_of_analysis.k = "none" THEN result
    ELSE IF period_of_analysis.v = 0 THEN <<PyFloat(0)>>
    ELSE IF period_of_analysis.v > 0 /\ Truthy(self.service_life)
         THEN [i \in 1..Len(result) |->
                 PyMul(result[i], GetNumReplacements(period_of_analysis, self.service_life).val)]
    ELSE IF period_of_analysis.v > 0 /\ ~Truthy(self.service_life)
         THEN [i \in 1..Len(result) |->
                 OwnReplacements(result[i], period_of_analysis, materials_list[i][1])]
    ELSE result

\* EPiCAssembly._calculate_flows(materials_list, flow, wastage_only,
\* period_of_analysis, quantity); a materials_list entry is <<material, quantity>>
CalculateFlow(self, materials_list, flow, wastage_only, period_of_analysis, quantity) ==
    LET base_quantity == IF wastage_only THEN PyFloat(0) ELSE PyFloat(Scale)
        q == IF quantity.k = "none" THEN self.total_units ELSE quantity
        result == [i \in 1..Len(materials_list) |->
            PyMul(PyMul(PyMul(q, PyAbs(materials_list[i][2])), materials_list[i][1][flow]),
                  WastageFactor(self, materials_list[i][1], base_quantity))]
    IN  PySum(RecurrentResult(self, materials_list, result, period_of_analysis))

\* the life-cycle bucket taken to be the initial bucket alone
LifeCycleInitialOnly(initial, recurrent) == initial

\* results[flow_type][env_flow] = initial + recurrent of a life-cycle bucket
LifeCycle(initial, recurrent) == PyAdd(initial, recurrent)

\* the period handed to _calculate_flows for a recurrent bucket: 0 when no
\* period of analysis is given
RecurrentPeriod(period_of_analysis) ==
    IF period_of_analysis.k = "none" THEN PyInt(0) ELSE period_of_analysis

\* EPiCAssembly._fill_flows_dict(period_of_analysis, materials_list, quantity);
\* the caller passes self.epic_materials where the code defaults to it
FillFlowsDict(self, period_of_analysis, materials_list, quantity) ==
    LET direct(flow_type, env_flow) ==
            CalculateFlow(self, materials_list, env_flow, flow_type \in WastageBuckets,
                          IF flow_type \in RecurrentBuckets
                          THEN RecurrentPeriod(period_of_analysis) ELSE None,
                          quantity)
        value(flow_type, env_flow) ==
            IF flow_type \notin LifeBuckets THEN direct(flow_type, env_flow)
            ELSE IF flow_type \in WastageBuckets
                 THEN LifeCycle(direct("initial_wastage", env_flow),
                                direct("recurrent_wastage", env_flow))
                 ELSE LifeCycle(direct("initial", env_flow), direct("recurrent", env_flow))
    IN  PyDict([flow_type \in Buckets |-> PyDict([env_flow \in Flows |-> value(flow_type, env_flow)])])

\* the by_material loop with the catalog identifiers not compared: materials of
\* one name are merged whatever their material_id
RECURSIVE ByMaterialNoIdCheck(_, _, _, _)
ByMaterialNoIdCheck(self, period_of_analysis, i, result_by_material) ==
    IF i > Len(self.epic_materials) THEN Returned(result_by_material)
    ELSE The({
        LET material == self.epic_materials[i][1]
            quantity == self.epic_materials[i][2]
        IN  IF ~HasKey(result, material.name)
            THEN ByMaterialNoIdCheck(self, period_of_analysis, i + 1,
                     DictSet(result, material.name,
                         DictSet(DictSet(DictSet(by_material, "quantity", quantity),
                                         "material_object", PyObj(material)),
                                 "material_name", PyStr(material.name))))
            ELSE The({ByMaterialNoIdCheck(self, period_of_analysis, i + 1,
                          DictSet(result, material.name,
                              DictSet(merged, "quantity", PyAdd(merged.v["quantity"], quantity))))
                      : merged \in {SumNumericalDictionaryValues(result.v[material.name],
                                                                 by_material)}})
        : result \in {result_by_material},
          by_material \in {FillFlowsDict(self, period_of_analysis,
                                         <<self.epic_materials[i]>>, None)}})

\* the by_material loop of calculate_flows from material number i on;
\* result_by_material is result['by_material'] so far
RECURSIVE ByMaterial(_, _, _, _)
ByMaterial(self, period_of_analysis, i, result_by_material) ==
    IF i > Len(self.epic_materials) THEN Returned(result_by_material)
    ELSE The({
        LET material == self.epic_materials[i][1]
            quantity == self.epic_materials[i][2]
        IN  IF ~HasKey(result, material.name)
            THEN ByMaterial(self, period_of_analysis, i + 1,
                     DictSet(result, material.name,
                         DictSet(DictSet(DictSet(by_material, "quantity", quantity),
                                         "material_object", PyObj(material)),
                                 "material_name", PyStr(material.name))))
            ELSE The({
                     IF merged.v["material_object"].v.material_id = material.material_id
                     THEN ByMaterial(self, period_of_analysis, i + 1,
                                     DictSet(result, material.name,
                                         DictSet(merged, "quantity",
                                                 PyAdd(merged.v["quantity"], quantity))))
                     ELSE Raised("ValueError")
                     : merged \in {SumNumericalDictionaryValues(result.v[material.name],
                                                                by_material)}})
        : result \in {result_by_material},
          by_material \in {FillFlowsDict(self, period_of_analysis,
                                         <<self.epic_materials[i]>>, None)}})

\* EPiCAssembly.calculate_flows(period_of_analysis): the flows dictionary, or
\* the ValueError of a name shared by two catalog entries
CalculateFlows(self, period_of_analysis) ==
    The({IF by_material.exc # "none" THEN by_material
         ELSE Returned(DictSet(result, "by_material", by_material.val))
         : result \in {FillFlowsDict(self, period_of_analysis, self.epic_materials, None)},
           by_material \in {ByMaterial(self, period_of_analysis, 1, EmptyDict)}})

\* EPiCAssembly.__init__ for the unit 'no.': the fields the calculation and the
\* aggregation read.  An epic_materials entry is <<<<material>>, quantity>>.  Names and categories are comma-free strings here, which
\* remove_commas_and_flatten_list_for_csv_export leaves as they are.
EPiCAssembly(selected_geometry, name, service_life, wastage, epic_materials, category) ==
    The({The({IF flows.exc # "none" THEN flows
              ELSE Returned([component_type |-> self.component_type, name |-> self.name,
                             category |-> self.category, service_life |-> self.service_life,
                             wastage_override |-> self.wastage_override,
                             total_units |-> self.total_units,
                             individual_units |-> self.individual_units,
                             epic_materials |-> self.epic_materials,
                             flows |-> flows.val, recalculated_flows |-> flows.val])
              : flows \in {CalculateFlows(self, None)}})
         : self \in {
             LET units == VerifyInputAndCalculateGeometryUnits(selected_geometry)
                 nm    == IF name.k = "none" THEN "EPiC Assembly" ELSE name.v[1]
             IN  [component_type |-> "EPiCAssembly",
                  name |-> nm,
                  category |-> IF category.k = "none" THEN nm ELSE category.v[1],
                  service_life |-> ServiceLifeOverride(service_life),
                  wastage_override |-> WastageOverride(wastage),
                  total_units |-> units[1],
                  individual_units |-> Table(units[2]),
                  epic_materials |-> Table([i \in 1..Len(epic_materials) |->
                        <<epic_materials[i][1][1], PyAbs(epic_materials[i][2])>>])]}})

----------------------------------------------------------------------------
(* EPiCAnalysis and EPiCBuiltAsset.  Assemblies are objects shared by         *)
(* reference: an aggregate holds the indices of its assemblies in the heap,  *)
(* the sequence of all assemblies constructed so far.                        *)

\* the name of the assembly's first material alone
MaterialNamesFirstOnly(assembly) ==
    {assembly.epic_materials[i][1].name : i \in {i \in 1..Len(assembly.epic_materials) : i = 1}}

\* [mat[0].name for mat in assembly.epic_materials]
MaterialNames(assembly) == {assembly.epic_materials[i][1].name : i \in 1..Len(assembly.epic_materials)}

\* a leaf of _sum_by_assembly_and_material: a float is added, a string is kept
\* or joined to a differing one with '/', anything else (an int, a material
\* object) replaces what was there
MergeLeaf(final_dict_result, key, leaf) ==
    The({IF value.k = "float" THEN PyAdd(DictGet(final, key, PyInt(0)), value)
         ELSE IF value.k = "str"
              THEN IF HasKey(final, key) /\ final.v[key] # value
                   THEN [k |-> "str", v |-> final.v[key].v \o value.v]
                   ELSE value
         ELSE value
         : final \in {final_dict_result}, value \in {leaf}})

\* EPiCAnalysis._sum_by_assembly_and_material(final_dict_result,
\* iterative_dict_result, by_material, assembly): the final dictionary after the
\* call; assembly is None where the code passes False
RECURSIVE SumInto(_, _, _, _)
SumInto(final_dict_result, iterative_dict_result, by_material, assembly) ==
    The({
        LET skipped == {key \in Keys(iterative) :
                            /\ iterative.v[key].k = "dict"
                            /\ key = "by_material"
                            /\ ~by_material}
            touched == Keys(iterative) \ skipped
            nested(key) ==
                The({IF /\ assembly.k = "obj"
                        /\ by_material
                        /\ Len(assembly.v.epic_materials) > 0
                        /\ key \in MaterialNames(assembly.v)
                     THEN The({DictSet(merged, "by_assembly",
                                   DictSet(by_assembly, assembly.v.name,
                                       SumInto(DictGet(by_assembly, assembly.v.name, EmptyDict),
                                               iterative.v[key], FALSE, None)))
                               : by_assembly \in {DictGet(merged, "by_assembly", EmptyDict)}})
                     ELSE merged
                     : merged \in {SumInto(DictGet(final, key, EmptyDict),
                                           iterative.v[key], FALSE, None)}})
            merge(key) ==
                IF iterative.v[key].k = "dict"
                THEN IF key = "by_material"
                     THEN SumInto(DictGet(final, key, EmptyDict), iterative.v[key], TRUE, assembly)
                     ELSE nested(key)
                ELSE MergeLeaf(final, key, iterative.v[key])
        IN  PyDict([key \in Keys(final) \cup touched |->
                IF key \in touched THEN merge(key) ELSE final.v[key]])
        : final \in {final_dict_result}, iterative \in {iterative_dict_result}})

\* the loop of sum_by_assembly_and_material from assembly number i on
RECURSIVE SumByAssemblyFrom(_, _, _)
SumByAssemblyFrom(epic_assemblies, i, result) ==
    IF i > Len(epic_assemblies) THEN result
    ELSE The({The({SumByAssemblyFrom(epic_assemblies, i + 1,
                       DictSet(total, "by_assembly",
                           DictSet(by_assembly, assembly.category,
                               SumInto(DictGet(by_assembly, assembly.category, EmptyDict),
                                       assembly.recalculated_flows, TRUE, None))))
                   : by_assembly \in {DictGet(total, "by_assembly", EmptyDict)}})
              : assembly \in {epic_assemblies[i]},
                total \in {SumInto(result, epic_assemblies[i].recalculated_flows, TRUE,
                                   PyObj(epic_assemblies[i]))}})

\* EPiCAnalysis.sum_by_assembly_and_material over the assembly objects
SumByAssemblyAndMaterial(epic_assemblies) ==
    SumByAssemblyFrom(Table(epic_assemblies), 1, EmptyDict)

\* an input of a constructor: a reference to an assembly of the heap
AssemblyRef(i) == [component_type |-> "EPiCAssembly", ref |-> i]

\* an input of a constructor: a built asset or an analysis, of which the
\* constructor reads the type and the assemblies
AggregateRef(object) ==
    [component_type |-> object.component_type, epic_assemblies |-> object.epic_assemblies]

RECURSIVE Concat(_)
Concat(lists) ==
    The({IF Len(seqs) = 0 THEN <<>> ELSE Head(seqs) \o Concat(Tail(seqs)) : seqs \in {Table(lists)}})

\* built_asset_objects of EPiCAnalysis.__init__, which the graph of the new
\* object is drawn from: the built assets and analyses among the inputs, each
\* with its type and its assemblies
BuiltAssetObjects(epic_inputs) ==
    Concat([i \in 1..Len(epic_inputs) |->
        IF epic_inputs[i].component_type \in {"EPiCBuiltAsset", "EPiCAnalysis"}
        THEN <<[component_type |-> epic_inputs[i].component_type,
                epic_assemblies |-> epic_inputs[i].epic_assemblies]>>
        ELSE <<>>])

\* the list kept with the assemblies of the contained aggregates left out
ContainedAssembliesDirectOnly(epic_inputs) ==
    Concat([i \in 1..Len(epic_inputs) |->
        IF epic_inputs[i].component_type = "EPiCAssembly" THEN <<epic_inputs[i].ref>> ELSE <<>>])

\* self.epic_assemblies of EPiCAnalysis.__init__: the assemblies passed
\* directly, then those of each built asset or analysis passed
ContainedAssemblies(epic_inputs) ==
    Concat([i \in 1..Len(epic_inputs) |->
        IF epic_inputs[i].component_type = "EPiCAssembly" THEN <<epic_inputs[i].ref>> ELSE <<>>])
    \o
    Concat([i \in 1..Len(epic_inputs) |->
        IF epic_inputs[i].component_type \in {"EPiCBuiltAsset", "EPiCAnalysis"}
        THEN epic_inputs[i].epic_assemblies ELSE <<>>])

\* assembly.recalculated_flows = assembly.calculate_flows(period_of_analysis)
\* for every assembly of refs
Recalculate(heap, refs, period_of_analysis) ==
    Table([i \in 1..Len(heap) |->
        IF \E j \in 1..Len(refs) : refs[j] = i
        THEN [heap[i] EXCEPT !.recalculated_flows = CalculateFlows(heap[i], period_of_analysis).val]
        ELSE heap[i]])

\* self.epic_materials of EPiCAnalysis.__init__: every material of every
\* assembly with its quantity times the assembly's total_units
AnalysisEpicMaterials(heap, refs) ==
    Concat([j \in 1..Len(refs) |->
        The({[i \in 1..Len(x.epic_materials) |->
                 <<x.epic_materials[i][1], PyMul(x.epic_materials[i][2], x.total_units)>>]
             : x \in {heap[refs[j]]}})])

\* EPiCAnalysis.__init__(name, epic_assemblies, period_of_analysis): the new
\* object and the heap with its assemblies recalculated
EPiCAnalysis(heap, name, epic_inputs, period_of_analysis) ==
    The({The({[self |-> [component_type |-> "EPiCAnalysis",
                         name |-> name,
                         period_of_analysis |-> period_of_analysis,
                         built_asset_objects |-> BuiltAssetObjects(epic_inputs),
                         epic_assemblies |-> refs,
                         epic_materials |-> AnalysisEpicMaterials(heap, refs),
                         flows |-> SumByAssemblyAndMaterial(
                                       [j \in 1..Len(refs) |-> heap1[refs[j]]])],
               heap |-> heap1]
              : heap1 \in {Recalculate(heap, refs, period_of_analysis)}})
         : refs \in {ContainedAssemblies(epic_inputs)}})

\* the default of EPiCAnalysis.__init__'s period_of_analysis
DefaultPeriodOfAnalysis == 100

\* EPiCBuiltAsset.__init__(name, epic_assemblies), as the Built Asset component
\* calls it: the period of analysis is left to EPiCAnalysis.__init__'s default
\* and set to 0 on the object afterwards
EPiCBuiltAsset(heap, name, epic_inputs) ==
    The({[self |-> [made.self EXCEPT !.period_of_analysis = PyInt(0),
                                     !.component_type = "EPiCBuiltAsset"],
          heap |-> made.heap]
         : made \in {EPiCAnalysis(heap, name, epic_inputs, PyInt(DefaultPeriodOfAnalysis))}})

\* print_report recalculating the assemblies and their as-built flows alike
PrintReportBothFlows(heap, self) ==
    IF Len(self.epic_assemblies) = 0 THEN [self |-> self, heap |-> heap]
    ELSE The({[self |-> [self EXCEPT !.period_of_analysis = period],
               heap |-> Table([i \in 1..Len(heap) |->
                   IF \E j \in 1..Len(self.epic_assemblies) : self.epic_assemblies[j] = i
                   THEN [heap[i] EXCEPT !.recalculated_flows = CalculateFlows(heap[i], period).val,
                                        !.flows = CalculateFlows(heap[i], period).val]
                   ELSE heap[i]])]
              : period \in {IF Truthy(self.period_of_analysis) THEN self.period_of_analysis
                            ELSE None}})

\* print_report leaving the assemblies as they are
PrintReportReadOnly(heap, self) == [self |-> self, heap |-> heap]

\* EPiCAnalysis.print_report(), which str() of an analysis or of a built asset
\* calls: inside the loop over the assemblies a period that is 0 or None is
\* stored as None, and every assembly is recalculated at the period stored;
\* the result is the object and the heap afterwards
PrintReport(heap, self) ==
    IF Len(self.epic_assemblies) = 0 THEN [self |-> self, heap |-> heap]
    ELSE The({[self |-> [self EXCEPT !.period_of_analysis = period],
               heap |-> Recalculate(heap, self.epic_assemblies, period)]
              : period \in {IF Truthy(self.period_of_analysis) THEN self.period_of_analysis
                            ELSE None}})

\* an entry of process_inputs' list is null: None, or a number that is zero
IsNull(x) == "k" \in DOMAIN x /\ ~Truthy(x)

\* x.component_type == 'EPiCAssembly' or x.component_type == 'EPiCBuiltAsset'
IsCleanInput(x) == x.component_type \in {"EPiCAssembly", "EPiCBuiltAsset"}

\* a built asset as an input of process_inputs: its type, name and assemblies
AssetRef(object) ==
    [component_type |-> object.component_type, name |-> object.name,
     epic_assemblies |-> object.epic_assemblies]

\* the loop of process_inputs over built_assets: state is the heap and
\* _epic_analyses so far
RECURSIVE AnalyseBuiltAssets(_, _, _)
AnalyseBuiltAssets(state, built_assets, period_of_analysis) ==
    IF Len(built_assets) = 0 THEN state
    ELSE The({AnalyseBuiltAssets([heap |-> made.heap,
                                  analyses |-> Append(st.analyses, AssetRef(made.self))],
                                 Tail(built_assets), period_of_analysis)
              : st \in {state},
                made \in {EPiCAnalysis(state.heap, Head(built_assets).name,
                                       <<Head(built_assets)>>, period_of_analysis)}})

\* EPiCAnalysis.process_inputs(epic_inputs, period_of_analysis=..., report_name=...,
\* epic_assemblies_name=...): the exception raised if any, epic_analysis, the
\* cleaned epic_inputs, _epic_analyses and the heap afterwards.  An entry without
\* a component_type attribute raises AttributeError in the second filter.
ProcessInputs(heap, epic_inputs, period_of_analysis, report_name, epic_assemblies_name) ==
    LET nonnull == SelectSeq(epic_inputs, LAMBDA x : ~IsNull(x))
    IN  IF \E i \in 1..Len(nonnull) : "component_type" \notin DOMAIN nonnull[i]
        THEN [exc |-> "AttributeError", epic_analysis |-> None, epic_inputs |-> <<>>,
              analyses |-> <<>>, heap |-> heap]
        ELSE The({The({The({
                 IF Len(all.analyses) = 0
                 THEN [exc |-> "none", epic_analysis |-> None, epic_inputs |-> cleaned,
                       analyses |-> <<>>, heap |-> all.heap]
                 ELSE The({[exc |-> "none", epic_analysis |-> top.self, epic_inputs |-> cleaned,
                            analyses |-> all.analyses, heap |-> top.heap]
                           : top \in {EPiCAnalysis(all.heap, report_name,
                                          [i \in 1..Len(all.analyses) |->
                                              AggregateRef(all.analyses[i])],
                                          period_of_analysis)}})
                 : all \in {
                     IF Len(SelectSeq(cleaned, LAMBDA x : x.component_type = "EPiCAssembly")) = 0
                     THEN assets
                     ELSE The({[heap |-> made.heap,
                                analyses |-> Append(assets.analyses, AssetRef(made.self))]
                               : made \in {EPiCAnalysis(assets.heap, epic_assemblies_name,
                                               SelectSeq(cleaned,
                                                   LAMBDA x : x.component_type = "EPiCAssembly"),
                                               period_of_analysis)}})}})
                 : assets \in {AnalyseBuiltAssets([heap |-> heap, analyses |-> <<>>],
                                   SelectSeq(cleaned, LAMBDA x : x.component_type = "EPiCBuiltAsset"),
                                   period_of_analysis)}})
                 : cleaned \in {SelectSeq(nonnull, LAMBDA x : IsCleanInput(x))}})

----------------------------------------------------------------------------
(* print_csv.  A file is the record of what was written to it: the report     *)
(* name, the blocks of the built assets and of the loose assemblies, and the  *)
(* bill of quantities; of a material's rows the name and the quantity are      *)
(* carried, the flow values that follow them are not.                         *)

\* the number of versions of one report name
MaxVersions == 50

\* the folders of the runs in which a file can be created: "missing" does not
\* exist and "readonly" cannot be written to
WritableFolders == {"out"}

\* name.replace(",", "."), for the names of the runs
CsvName(name) == IF name = "steel, galvanised" THEN "steel. galvanised" ELSE name

\* remove_commas_and_flatten_list_for_csv_export(report_name, list_separator='_',
\* remove_spaces=True), for the report names of the runs
CsvReportName(report_name) ==
    IF report_name = "EPiC Analysis" THEN "EPiC_Analysis" ELSE report_name

\* the blocks written with every assembly's quantity taken per unit
WriteAssemblyFlowsPerUnit(heap, refs) ==
    The({[j \in 1..Len(shown) |->
             The({[name |-> CsvName(assembly.name),
                   total_units |-> assembly.total_units,
                   rows |-> Table([key \in Keys(assembly.recalculated_flows.v["by_material"]) |->
                       The({[name |-> CsvName(mat.v["material_name"].v[1]),
                             quantity |-> mat.v["quantity"]]
                            : mat \in {assembly.recalculated_flows.v["by_material"].v[key]}})])]
                  : assembly \in {heap[shown[j]]}})]
         : shown \in {SelectSeq(refs, LAMBDA r : heap[r].total_units.v > 0)}})

\* _write_assembly_flows_to_csv(assemblies, csv): a block for every assembly
\* with total_units > 0 (which has a non-empty selected_geometry), and in it a
\* row for every entry of recalculated_flows['by_material']
WriteAssemblyFlowsToCsv(heap, refs) ==
    The({[j \in 1..Len(shown) |->
             The({[name |-> CsvName(assembly.name),
                   total_units |-> assembly.total_units,
                   rows |-> Table([key \in Keys(assembly.recalculated_flows.v["by_material"]) |->
                       The({[name |-> CsvName(mat.v["material_name"].v[1]),
                             quantity |-> PyMul(mat.v["quantity"], assembly.total_units)]
                            : mat \in {assembly.recalculated_flows.v["by_material"].v[key]}})])]
                  : assembly \in {heap[shown[j]]}})]
         : shown \in {SelectSeq(refs, LAMBDA r : heap[r].total_units.v > 0)}})

\* _write_built_asset_flow_values_to_csv(built_assets, csv)
WriteBuiltAssetFlowValuesToCsv(heap, built_assets) ==
    [i \in 1..Len(built_assets) |->
        [name |-> CsvName(built_assets[i].name),
         blocks |-> WriteAssemblyFlowsToCsv(heap, built_assets[i].epic_assemblies)]]

\* the boq dictionary of _write_boq_to_csv from entry number i on
RECURSIVE Boq(_, _, _)
Boq(epic_materials, i, boq) ==
    IF i > Len(epic_materials) THEN boq
    ELSE The({Boq(epic_materials, i + 1,
                  DictSet(boq, mat[1].name,
                          IF HasKey(boq, mat[1].name) THEN PyAdd(boq.v[mat[1].name], mat[2])
                          ELSE mat[2]))
              : mat \in {epic_materials[i]}})

\* _write_boq_to_csv(csv, analysis): a row for every material name
WriteBoqToCsv(analysis) ==
    The({Table([x \in Keys(boq) |-> [name |-> CsvName(x), total_units |-> boq.v[x]]])
         : boq \in {Boq(analysis.epic_materials, 1, EmptyDict)}})

\* the version print_csv writes: the first of 1..MaxVersions that does not exist,
\* the last one when all exist
CsvVersion(files, folder, name) ==
    IF <<folder, name, 1>> \notin DOMAIN files THEN 1
    ELSE IF \E c \in 2..MaxVersions : <<folder, name, c>> \notin DOMAIN files
         THEN CHOOSE c \in 2..MaxVersions :
                  /\ <<folder, name, c>> \notin DOMAIN files
                  /\ \A d \in 2..(c - 1) : <<folder, name, d>> \in DOMAIN files
         ELSE MaxVersions

\* the condition of print_csv's while loop with the limit one too far
SearchContinuesPastLimit(exists, counter) == exists /\ counter <= MaxVersions

\* os.path.exists(filepath) and counter < 50
SearchContinues(exists, counter) == exists /\ counter < MaxVersions

\* files with the file at path written
WriteFile(files, path, content) ==
    [q \in (DOMAIN files) \cup {path} |-> IF q = path THEN content ELSE files[q]]

\* print_csv(report_name, folder_location, period_of_analysis, analysis,
\* epic_assemblies): the exception raised if any, the message returned and the
\* files afterwards.  The message is built from folder_location before anything
\* is tested, the file is opened with no exception handler, and the summary of
\* the flows reads analysis.flows.
PrintCsv(report_name, folder_location, period_of_analysis, analysis, epic_assemblies, heap, files) ==
    IF folder_location.k # "str"
    THEN [exc |-> "TypeError", message |-> None, files |-> files]
    ELSE IF folder_location.v[1] = ""
    THEN [exc |-> "ValueError", message |-> None, files |-> files]
    ELSE The({
        IF folder_location.v[1] \notin WritableFolders
        THEN [exc |-> "IOError", message |-> None, files |-> files]
        ELSE IF analysis = None
        THEN [exc |-> "AttributeError", message |-> None,
              files |-> WriteFile(files, path, [report_name |-> path[2],
                                                period_of_analysis |-> period_of_analysis])]
        ELSE [exc |-> "none",
              message |-> [k |-> "str", v |-> <<"Successfully printed to .csv file: ", path>>],
              files |-> WriteFile(files, path,
                  [report_name |-> path[2],
                   period_of_analysis |-> period_of_analysis,
                   built_assets |-> WriteBuiltAssetFlowValuesToCsv(heap,
                       SelectSeq(epic_assemblies,
                           LAMBDA x : x.component_type \in {"EPiCBuiltAsset", "EPiCAnalysis"})),
                   assemblies |-> WriteAssemblyFlowsToCsv(heap,
                       The({[j \in 1..Len(loose) |-> loose[j].ref]
                            : loose \in {SelectSeq(epic_assemblies,
                                  LAMBDA x : x.component_type = "EPiCAssembly")}})),
                   boq |-> WriteBoqToCsv(analysis)])]
        : path \in {<<folder_location.v[1], CsvReportName(report_name),
                      CsvVersion(files, folder_location.v[1], CsvReportName(report_name))>>}})

----------------------------------------------------------------------------
(* The text fields of the export.  A text is the sequence of its pieces, a    *)
(* piece being one character or a word with neither comma nor space.          *)

Text(pieces) == [k |-> "str", v |-> pieces]

TextList(texts) == [k |-> "list", v |-> texts]

\* the limit of limit_characters
CharacterLimit == 50

\* bool(x) of a text, a list or None
TextTruthy(x) == x.k # "none" /\ Len(x.v) > 0

\* s.replace(old, new) for one-character old and new
TextReplace(s, old, new) == Text([i \in 1..Len(s.v) |-> IF s.v[i] = old THEN new ELSE s.v[i]])

\* separator.join(texts)
RECURSIVE TextJoin(_, _)
TextJoin(texts, separator) ==
    IF Len(texts) = 0 THEN Text(<<>>)
    ELSE IF Len(texts) = 1 THEN texts[1]
    ELSE Text(texts[1].v \o separator.v \o TextJoin(Tail(texts), separator).v)

\* ' | ', the default list_separator
DefaultListSeparator == Text(<<" ", "|", " ">>)

\* remove_commas_and_flatten_list_for_csv_export(text_inputs, list_separator,
\* remove_spaces, limit_characters)
RemoveCommasAndFlattenListForCsvExport(text_inputs, list_separator, remove_spaces, limit_characters) ==
    IF text_inputs.k \notin {"list", "str"} THEN text_inputs
    ELSE The({The({IF limit_characters
                   THEN Text(SubSeq(spaced.v, 1,
                                    IF Len(spaced.v) < CharacterLimit THEN Len(spaced.v)
                                    ELSE CharacterLimit))
                   ELSE spaced
                   : spaced \in {IF remove_spaces THEN TextReplace(flat_text, " ", "_")
                                  ELSE flat_text}})
              : flat_text \in {IF text_inputs.k = "list"
                                THEN TextReplace(TextJoin(text_inputs.v, list_separator), ",", " ")
                                ELSE TextReplace(text_inputs, ",", " ")}})

\* self.comments of EPiCMaterial.__init__ stored as given
MaterialCommentsAsGiven(comments) == IF TextTruthy(comments) THEN comments ELSE Text(<<>>)

\* self.comments of EPiCMaterial.__init__
MaterialComments(comments) ==
    IF TextTruthy(comments)
    THEN RemoveCommasAndFlattenListForCsvExport(comments, DefaultListSeparator, FALSE, FALSE)
    ELSE Text(<<>>)

\* self.name of EPiCAssembly.__init__
AssemblyName(name) ==
    IF TextTruthy(name)
    THEN RemoveCommasAndFlattenListForCsvExport(name, DefaultListSeparator, FALSE, FALSE)
    ELSE Text(<<"EPiC", " ", "Assembly">>)

\* self.category of EPiCAssembly.__init__
AssemblyCategory(name, category) ==
    IF ~TextTruthy(category) THEN AssemblyName(name)
    ELSE RemoveCommasAndFlattenListForCsvExport(category, DefaultListSeparator, FALSE, FALSE)

\* self.comments of EPiCAssembly.__init__ and of EPiCAnalysis.__init__
Comments(comments) ==
    IF TextTruthy(comments)
    THEN RemoveCommasAndFlattenListForCsvExport(comments, DefaultListSeparator, FALSE, FALSE)
    ELSE Text(<<>>)

\* self.name of EPiCAnalysis.__init__, which EPiCBuiltAsset.__init__ calls
AnalysisName(name) ==
    IF TextTruthy(name)
    THEN RemoveCommasAndFlattenListForCsvExport(name, DefaultListSeparator, FALSE, FALSE)
    ELSE Text(<<"EPiCAnalysis">>)

\* the text fields of the export
TextFields ==
    {"report name", "built asset name", "built asset comments", "assembly name",
     "assembly category", "assembly comments", "material name", "material comments"}

\* the attribute a constructor stores for the field; print_csv is given the
\* report name as it is, and EPiCMaterial.__init__ stores the name as it is
StoredField(field, text, name) ==
    CASE field = "report name" -> text
      [] field = "built asset name" -> AnalysisName(text)
      [] field = "built asset comments" -> Comments(text)
      [] field = "assembly name" -> AssemblyName(text)
      [] field = "assembly category" -> AssemblyCategory(name, text)
      [] field = "assembly comments" -> Comments(text)
      [] field = "material name" -> text
      [] field = "material comments" -> MaterialComments(text)

\* what the export writes for the field: the exception raised if any, and the
\* text written, None when the field is left out.  A material name that is a
\* list cannot be a key of by_material: the assembly is never constructed; one
\* that is None has no replace.
WrittenField(field, stored, name) ==
    CASE field = "report name" ->
             Returned(IF TextTruthy(stored)
                      THEN RemoveCommasAndFlattenListForCsvExport(stored, Text(<<"_">>), TRUE, FALSE)
                      ELSE Text(<<"EPiC", " ", "Assembly">>))
      [] field = "built asset name" ->
             Returned(Text(<<"<<-">> \o TextReplace(stored, ",", ".").v \o <<"->>">>))
      [] field = "built asset comments" ->
             Returned(IF TextTruthy(stored) THEN TextReplace(stored, ",", ".") ELSE None)
      [] field = "assembly name" -> Returned(TextReplace(stored, ",", "."))
      [] field = "assembly category" ->
             Returned(IF stored = AssemblyName(name) THEN None ELSE TextReplace(stored, ",", "."))
      [] field = "assembly comments" ->
             Returned(TextReplace(IF TextTruthy(stored) THEN stored ELSE Text(<<" ">>), ",", "."))
      [] field = "material name" ->
             IF stored.k = "list" THEN Raised("TypeError")
             ELSE IF stored.k = "none" THEN Raised("AttributeError")
             ELSE Returned(TextReplace(stored, ",", "."))
      [] field = "material comments" -> Returned(stored)

----------------------------------------------------------------------------
(* EPiCBreakdown *)

\* HYBRID_VALUE_BREAKDOWN_DICT
HybridValueBreakdownDict ==
    PyDict([flow \in Flows |-> PyDict([part \in {"process", "io"} |-> None])])

\* the class object dict, the default of EPiCMaterial.__init__'s process_shares
DictType == [k |-> "type", v |-> 0]

\* 1 - x; a float share is carried in hundredths
OneMinus(x) == IF x.k = "float" THEN PyFloat(Scale - x.v) ELSE PyInt(1 - x.v)

\* generate_breakdown_dict writing into HYBRID_VALUE_BREAKDOWN_DICT itself
GenerateBreakdownDictNoCopy(self, dicts) ==
    IF self.process_shares.k # "dict" \/ \E flow \in Flows : ~IsNumber(self.process_shares.v[flow])
    THEN [exc |-> "TypeError", ref |-> 0, dicts |-> dicts]
    ELSE [exc |-> "none", ref |-> 1,
          dicts |-> [dicts EXCEPT ![1] =
                        PyDict([flow \in Keys(dicts[1]) |->
                            PyDict([part \in {"process", "io"} |->
                                IF part = "process" THEN self.process_shares.v[flow]
                                ELSE OneMinus(self.process_shares.v[flow])])])]]

\* EPiCMaterial.generate_breakdown_dict(): a deep copy of the template is put in
\* memory and filled flow by flow; self.process_shares[flow] of something that
\* is no mapping, and 1 - None, raise TypeError
GenerateBreakdownDict(self, dicts) ==
    IF self.process_shares.k # "dict" \/ \E flow \in Flows : ~IsNumber(self.process_shares.v[flow])
    THEN [exc |-> "TypeError", ref |-> 0, dicts |-> dicts]
    ELSE [exc |-> "none", ref |-> Len(dicts) + 1,
          dicts |-> Append(dicts,
                        PyDict([flow \in Keys(dicts[1]) |->
                            PyDict([part \in {"process", "io"} |->
                                IF part = "process" THEN self.process_shares.v[flow]
                                ELSE OneMinus(self.process_shares.v[flow])])]))]

\* the classes that define generate_breakdown_dict: EPiCMaterial, and
\* CustomMaterial which inherits it
HasGenerateBreakdownDict(epic_entity) == epic_entity.component_type = "EPiCMaterial"

\* isinstance(epic_entity, (EPiCMaterial, EPiCAssembly, EPiCBuiltAsset, EPiCAnalysis))
IsBreakdownEntity(epic_entity) ==
    /\ "component_type" \in DOMAIN epic_entity
    /\ epic_entity.component_type
           \in {"EPiCMaterial", "EPiCAssembly", "EPiCBuiltAsset", "EPiCAnalysis"}

\* EPiCBreakdown(epic_entity).breakdown_embodied_flows()
BreakdownEmbodiedFlows(epic_entity, dicts) ==
    IF ~IsBreakdownEntity(epic_entity) THEN [exc |-> "TypeError", ref |-> 0, dicts |-> dicts]
    ELSE IF ~HasGenerateBreakdownDict(epic_entity)
         THEN [exc |-> "AttributeError", ref |-> 0, dicts |-> dicts]
         ELSE GenerateBreakdownDict(epic_entity, dicts)

----------------------------------------------------------------------------
(* EPiCDatabase *)

\* float('nan'), which the database holds where a value is missing
Nan == [k |-> "nan", v |-> 0]

PyList(s) == [k |-> "list", v |-> s]

\* math.isnan(x): "true" or "false" for a number; for a value that is no number
\* (a str, a dict) the outcome depends on the interpreter, False under
\* IronPython and TypeError under CPython, and is given as of_text
IsNan(x, of_text) ==
    IF x.k = "nan" THEN "true"
    ELSE IF IsNumber(x) THEN "false"
         ELSE of_text

\* EPiCMaterial.remove_func_unit_from_mat_name on the decorated names in use
RemoveFuncUnitFromMatName(mat_name) ==
    CASE mat_name = "Steel | (kg)" -> "Steel"
      [] mat_name = "Timber | (m3)" -> "Timber"
      [] mat_name = "Unknown | (kg)" -> "Unknown"
      [] OTHER -> mat_name

\* EPiCDatabase._query_for_name_or_old_mat_id(lookup_item): the key of the
\* material of that name, else of that legacy name, else None
QueryForNameOrOldMatId(database, lookup_item) ==
    The({ IF \E key \in DOMAIN database : database[key]["name"] = PyStr(item)
          THEN PyStr(CHOOSE key \in DOMAIN database : database[key]["name"] = PyStr(item))
          ELSE IF \E key \in DOMAIN database : database[key]["Legacy_names"] = PyStr(item)
               THEN PyStr(CHOOSE key \in DOMAIN database :
                                 database[key]["Legacy_names"] = PyStr(item))
               ELSE None
          : item \in {RemoveFuncUnitFromMatName(lookup_item)} })

\* the entry of the list query for an attribute the material lacks: 'None'
QueryPlaceholder == PyStr("None")

\* the list comprehension of query: the value of each attribute asked for, the
\* placeholder for an attribute the material lacks
QueryList(entry, material_attributes) ==
    [i \in 1..Len(material_attributes) |->
        IF material_attributes[i] \in DOMAIN entry THEN entry[material_attributes[i]]
        ELSE QueryPlaceholder]

\* the end of query: nan becomes None, in the value or in each value of a list
QueryWithoutNan(query, isnan_of_text) ==
    IF query.k # "list"
    THEN IF IsNan(query, isnan_of_text) = "TypeError"
         THEN Raised("TypeError('a float is required')")
         ELSE IF IsNan(query, isnan_of_text) = "true" THEN Returned(None)
              ELSE Returned(query)
    ELSE IF \E i \in 1..Len(query.v) : IsNan(query.v[i], isnan_of_text) = "TypeError"
         THEN Raised("TypeError('a float is required')")
         ELSE Returned(PyList([i \in 1..Len(query.v) |->
                  IF IsNan(query.v[i], isnan_of_text) = "true" THEN None ELSE query.v[i]]))

\* EPiCDatabase.query(material_id, material_attributes) on the database given,
\* no custom database being loaded
Query(database, material_id, material_attributes, isnan_of_text) ==
    The({ IF material_attributes = None
          THEN IF id = None THEN Raised("TypeError('Material not found')")
               ELSE QueryWithoutNan(PyDict(database[id.v[1]]), isnan_of_text)
          ELSE IF material_attributes.k = "list"
               THEN IF Len(material_attributes.v) = 0
                    THEN Returned(PyList(<<>>))
                    ELSE IF id = None
                         THEN Raised("TypeError('Material or material attribute not found')")
                         ELSE QueryWithoutNan(
                                  PyList(QueryList(database[id.v[1]], material_attributes.v)),
                                  isnan_of_text)
               ELSE IF id = None \/ material_attributes.v[1] \notin DOMAIN database[id.v[1]]
                    THEN Raised("TypeError('Material or material attribute not found')")
                    ELSE QueryWithoutNan(database[id.v[1]][material_attributes.v[1]],
                                         isnan_of_text)
          : id \in {IF material_id \in DOMAIN database THEN PyStr(material_id)
                    ELSE QueryForNameOrOldMatId(database, material_id)} })

----------------------------------------------------------------------------
(* Functional units *)

\* str.lower() on the unit strings in use
Lower(text) ==
    CASE text = "M2" -> "m2"
      [] text = "KG" -> "kg"
      [] OTHER -> text

\* str(x) of a unit input: a str as it is, the number 5 as '5'
Str(x) == IF x.k = "str" THEN x ELSE PyStr("5")

\* the warning of check_functional_unit_and_return_formatted_version
FunctionalUnitWarning == PyStr("The functional unit can only be m, m2, m3, kg or no.")

\* check_functional_unit_and_return_formatted_version(functional_unit):
\* <<warning, functional_unit>>; a non-empty str gets no warning whatever it is
CheckFunctionalUnitAndReturnFormattedVersion(functional_unit) ==
    IF functional_unit.k = "str" /\ functional_unit.v[1] # ""
    THEN The({ <<None, IF lower = "m2" THEN PyStr("m²")
                       ELSE IF lower = "m3" THEN PyStr("m³")
                            ELSE PyStr(lower)>>
               : lower \in {Lower(functional_unit.v[1])} })
    ELSE <<FunctionalUnitWarning, functional_unit>>

\* CustomMaterial(...): EPiCMaterial.__init__ stores functional_unit as given
CustomMaterial(name, energy, water, ghg, functional_unit) ==
    [component_type |-> "EPiCMaterial", name |-> name, energy |-> energy, water |-> water,
     ghg |-> ghg, functional_unit |-> functional_unit]

\* RunScript of the Custom Material component: the warning reported and the
\* material put out
CustomMaterialRunScript(name, functional_unit, energy, water, ghg) ==
    The({ IF functional_unit # None /\ checked[1] # None
          THEN [exc |-> "none", warning |-> checked[1], object |-> None]
          ELSE IF None \notin {checked[2], energy, ghg, water}
               THEN [exc |-> "none", warning |-> None,
                     object |-> CustomMaterial(name, energy, water, ghg, checked[2])]
               ELSE [exc |-> "none", warning |-> PyStr("Provide required inputs"),
                     object |-> None]
          : checked \in {IF functional_unit = None THEN <<None, None>>
                         ELSE CheckFunctionalUnitAndReturnFormattedVersion(Str(functional_unit))} })

\* the kinds of geometry each unit of measure accepts
GeometryKinds(assembly_units) ==
    CASE assembly_units = PyStr("m") -> {"curve"}
      [] assembly_units = PyStr("m²") -> {"surface"}
      [] assembly_units = PyStr("m³") -> {"solid"}
      [] OTHER -> {}

\* unit_calculation[assembly_units](geometry): the length, area or volume that
\* the host measures
UnitCalculation(assembly_units, geometry) == PyFloat(250)

\* one pass of the loop of verify_input_and_calculate_geometry_units: _value
GeometryValue(geometry, assembly_units) ==
    IF IsNumber(geometry) THEN Returned(geometry)
    ELSE IF assembly_units = PyStr("no.") THEN Returned(PyInt(1))
    ELSE IF assembly_units \in {PyStr("m"), PyStr("m²"), PyStr("m³")}
         THEN IF geometry.v \in GeometryKinds(assembly_units)
              THEN Returned(UnitCalculation(assembly_units, geometry))
              ELSE Raised("TypeError")
         ELSE Raised("ValueError")

\* verify_input_and_calculate_geometry_units(selected_geometry, assembly_units)
VerifyGeometryUnits(selected_geometry, assembly_units) ==
    The({ IF \E i \in 1..Len(values) : values[i].exc # "none"
          THEN Raised(values[CHOOSE i \in 1..Len(values) :
                                 /\ values[i].exc # "none"
                                 /\ \A j \in 1..(i - 1) : values[j].exc = "none"].exc)
          ELSE Returned(<<PyAbs(PySum([i \in 1..Len(values) |-> values[i].val])),
                          [i \in 1..Len(values) |-> values[i].val]>>)
          : values \in {Table([i \in 1..Len(NonNullInputs(selected_geometry)) |->
                          GeometryValue(NonNullInputs(selected_geometry)[i], assembly_units)])} })

\* RunScript of the Assembly component for the unit given: a TypeError of the
\* constructor is reported as the geometry warning, any other exception is
\* raised; else the assembly is put out
AssemblyRunScript(selected_geometry, assembly_units) ==
    The({ IF verified.exc = "TypeError"
          THEN [exc |-> "none", warning |-> PyStr("geometry_warning"), object |-> None]
          ELSE IF verified.exc # "none"
               THEN [exc |-> verified.exc, warning |-> None, object |-> None]
               ELSE [exc |-> "none", warning |-> None,
                     object |-> [component_type |-> "EPiCAssembly",
                                 assembly_units |-> assembly_units,
                                 total_units |-> verified.val[1],
                                 individual_units |-> verified.val[2]]]
          : verified \in {VerifyGeometryUnits(selected_geometry, assembly_units)} })

----------------------------------------------------------------------------
(* EPiCMaterial.recreate_material_list.  The sticky dictionary is a function  *)
(* from its keys, a call in progress a record of its arguments, its locals    *)
(* and the statement it is at.                                                *)

\* epic_db.dict_of_categories: the (id, name) pairs of a category, sorted
DictOfCategories ==
    [Metals |-> <<<<"M1", "Steel">>, <<"M5", "Aluminium">>>>,
     Timber |-> <<<<"M2", "Timber">>>>]

\* if not "is_running" in st.keys(): st["is_running"] = False
WithIsRunning(st) ==
    IF "is_running" \in DOMAIN st THEN st ELSE st @@ ("is_running" :> FALSE)

\* the test of the flag with the flag ignored
IsNotRunningIgnored(st) == TRUE

\* st["is_running"] == False
IsNotRunning(st) == st["is_running"] = FALSE

\* st["is_running"] = value
SetIsRunning(st, value) == [st EXCEPT !["is_running"] = value]

\* zip(*sorted(epic_db.dict_of_categories[material_category].items())): a list
\* is no key (TypeError) and an unknown category is a KeyError
NewList(material_category) ==
    IF material_category.k # "str" THEN Raised("TypeError")
    ELSE IF material_category.v[1] \notin DOMAIN DictOfCategories THEN Raised("KeyError")
    ELSE Returned(DictOfCategories[material_category.v[1]])

\* selected_material after the loop over the new list: the position, from 0, of
\* the last item whose id is set_material
SelectedMaterial(new_list, set_material) ==
    IF set_material # None /\ \E i \in 1..Len(new_list) : new_list[i][1] = set_material.v[1]
    THEN (CHOOSE i \in 1..Len(new_list) :
              /\ new_list[i][1] = set_material.v[1]
              /\ \A j \in (i + 1)..Len(new_list) : new_list[j][1] # set_material.v[1]) - 1
    ELSE 0

\* the statements of a regeneration during which the host runs
HostCalls == {"clear", "add", "select", "expire"}

\* the innermost call in progress
Top(stack) == stack[Len(stack)]

\* the stack with the innermost call at the statement pc
AtStatement(stack, pc) == [stack EXCEPT ![Len(stack)].pc = pc]

\* the stack without the innermost call
Popped(stack) == SubSeq(stack, 1, Len(stack) - 1)

----------------------------------------------------------------------------
(* SpecRepl: the replacement scheduler applied to bounded inputs *)

MaxPeriod == 12

MaxServiceLife == 13

ReplPeriods == {PyInt(p) : p \in (0 - 2)..MaxPeriod}

ReplServiceLives == {None} \cup {PyInt(s) : s \in 0..MaxServiceLife}

NoCall == [call |-> "none", flow |-> "", wastage_only |-> FALSE, period |-> None,
           quantity |-> None, val |-> None, again |-> None]

\* the variables of the replacement-scheduler runs, when another run leaves them idle
ReplIdle ==
    /\ rp_period = PyInt(0)
    /\ rp_service = None
    /\ rp_call = "none"
    /\ rp_ret = Returned(None)

\* the variables of the single-assembly runs, idle
CalcIdle ==
    /\ c_asm = None
    /\ c_ret = NoCall

\* the variables of the aggregation runs, idle
AggIdle ==
    /\ assemblies = <<>>
    /\ agg = None

\* the variables of the construction runs, idle
NewIdle ==
    /\ n_args = None
    /\ n_ret = None
    /\ n_calc = None

\* the variables of the process_inputs runs, idle
ProcIdle ==
    /\ p_assets = <<>>
    /\ p_ret = None

\* the variables of the breakdown runs, idle
BreakIdle ==
    /\ b_dicts = <<>>
    /\ b_calls = <<>>

\* the variables of the export runs, idle
CsvIdle ==
    /\ csv_files = <<>>
    /\ csv_ret = None

\* the variables of the text runs, idle
TextIdle ==
    /\ t_in = None
    /\ t_pc = "idle"
    /\ t_stored = None
    /\ t_written = None

\* the variables of the database runs, idle
DbIdle == q_ret = None

\* the variables of the functional-unit runs, idle
UnitIdle == u_ret = None

\* the variables of the runs over shared assemblies, idle
ShareIdle ==
    /\ s_objects = <<>>
    /\ s_made = <<>>
    /\ s_last = <<>>

\* the variables of the runs defined after the text runs, idle
\* the variables of the version-search runs, idle
VerIdle ==
    /\ v_pc = "idle"
    /\ v_counter = 1
    /\ v_filepath = <<>>
    /\ v_start = <<>>
    /\ v_done = 0
    /\ v_last = None

\* the variables of the dropdown runs, idle
ListIdle ==
    /\ sticky = <<>>
    /\ l_items = <<>>
    /\ l_stack = <<>>
    /\ l_calls = 0
    /\ l_last = None

LastIdle == VerIdle /\ ListIdle

FinalIdle == DbIdle /\ UnitIdle /\ ShareIdle /\ LastIdle

\* the variables of the runs defined after the aggregation runs, idle
LaterIdle == NewIdle /\ ProcIdle /\ BreakIdle /\ CsvIdle /\ TextIdle /\ FinalIdle

InitRepl ==
    /\ rp_period \in ReplPeriods
    /\ rp_service \in ReplServiceLives
    /\ rp_call = "none"
    /\ rp_ret = Returned(None)
    /\ CalcIdle
    /\ AggIdle
    /\ LaterIdle

CallNumReplacements ==
    /\ rp_call = "none"
    /\ rp_call' = "_get_num_replacements"
    /\ rp_ret' = GetNumReplacements(rp_period, rp_service)
    /\ UNCHANGED <<rp_period, rp_service, calcVars, aggVars, laterVars>>

CallAccumulated ==
    /\ rp_call = "none"
    /\ \E include_initial \in BOOLEAN :
          /\ rp_call' = IF include_initial THEN "accumulated_with_initial" ELSE "accumulated"
          /\ rp_ret' = GetAccumulatedNumberOfInstances(rp_period, rp_service, include_initial)
    /\ UNCHANGED <<rp_period, rp_service, calcVars, aggVars, laterVars>>

NextRepl == CallNumReplacements \/ CallAccumulated

SpecRepl == InitRepl /\ [][NextRepl]_vars

----------------------------------------------------------------------------
(* Inputs *)

\* the material of the specification's scenario: 10 MJ per unit, 10 % wastage,
\* service life 0
Steel == EPiCMaterial("steel", PyFloat(10), PyFloat(4), PyFloat(1), "M1", PyFloat(10), PyInt(0))

Timber == EPiCMaterial("timber", PyFloat(3), PyFloat(2), PyFloat(1), "M2", PyFloat(20), PyInt(20))

\* another catalog entry under Steel's name
SteelOther == EPiCMaterial("steel", PyFloat(7), PyFloat(2), PyFloat(3), "M9", PyFloat(5), PyInt(30))

\* a material with no wastage and no service life given
Glass == EPiCMaterial("glass", PyFloat(5), PyFloat(1), PyFloat(2), "M3", None, None)

\* periods of analysis: none, zero, one that Timber's service life divides and
\* one that it does not
Periods == {None, PyInt(0), PyInt(40), PyInt(45)}

----------------------------------------------------------------------------
(* SpecCalc: one assembly, the flow calculation applied to it *)

MaxMaterials == 2

CalcEntries == {<<<<Steel>>, PyInt(2)>>, <<<<Steel>>, PyFloat(0 - 3)>>,
                <<<<Timber>>, PyFloat(1)>>, <<<<Glass>>, PyInt(1)>>}

CalcMaterialLists == UNION {[1..n -> CalcEntries] : n \in 0..MaxMaterials}

CalcServiceLives == {None, PyInt(0), PyInt(15)}

CalcWastages == {None, PyInt(0), PyFloat(25)}

\* a single number, and a point, a null and a number
CalcGeometries == {<<PyInt(5)>>, <<PyObj("point"), None, PyFloat(2)>>}

CalcQuantities == {None, PyFloat(1)}

InitCalc ==
    /\ \E geometry \in CalcGeometries, service_life \in CalcServiceLives,
          wastage \in CalcWastages, epic_materials \in CalcMaterialLists :
          c_asm = EPiCAssembly(geometry, PyStr("wall"), service_life, wastage,
                               epic_materials, None).val
    /\ c_ret = NoCall
    /\ ReplIdle
    /\ AggIdle
    /\ LaterIdle

\* assembly._calculate_flows(materials_list, flow, wastage_only, period, quantity)
CallCalculateFlow ==
    /\ c_ret.call = "none"
    /\ \E flow \in Flows, wastage_only \in BOOLEAN, period \in Periods, quantity \in CalcQuantities :
          c_ret' = [call |-> "_calculate_flows", flow |-> flow, wastage_only |-> wastage_only,
                    period |-> period, quantity |-> quantity,
                    val |-> CalculateFlow(c_asm, c_asm.epic_materials, flow, wastage_only,
                                          period, quantity),
                    again |-> None]
    /\ UNCHANGED <<c_asm, replVars, aggVars, laterVars>>

\* assembly.calculate_flows(period) with the result stored on the assembly
CallCalculateFlowsStoring ==
    /\ c_ret.call = "none"
    /\ \E period \in Periods :
          \E result \in {CalculateFlows(c_asm, period).val} :
              /\ c_ret' = [NoCall EXCEPT !.call = "calculate_flows", !.period = period,
                                         !.val = result]
              /\ c_asm' = [c_asm EXCEPT !.recalculated_flows = result]
    /\ UNCHANGED <<replVars, aggVars, laterVars>>

\* assembly.calculate_flows(period)
CallCalculateFlows ==
    /\ c_ret.call = "none"
    /\ \E period \in Periods :
          c_ret' = [NoCall EXCEPT !.call = "calculate_flows", !.period = period,
                                  !.val = CalculateFlows(c_asm, period).val]
    /\ UNCHANGED <<c_asm, replVars, aggVars, laterVars>>

\* assembly.calculate_flows(period) a second time, with the period of the first call
CallCalculateFlowsAgain ==
    /\ c_ret.call = "calculate_flows"
    /\ c_ret.again = None
    /\ c_ret' = [c_ret EXCEPT !.again = CalculateFlows(c_asm, c_ret.period).val]
    /\ UNCHANGED <<c_asm, replVars, aggVars, laterVars>>

\* EPiCAnalysis('EPiCAnalysis', [assembly], period)
AnalyseAssembly ==
    /\ c_ret.call = "none"
    /\ \E period \in Periods :
          LET made == EPiCAnalysis(<<c_asm>>, "EPiCAnalysis", <<AssemblyRef(1)>>, period)
          IN  /\ c_asm' = made.heap[1]
              /\ c_ret' = [NoCall EXCEPT !.call = "EPiCAnalysis", !.period = period,
                                         !.val = made.self.flows]
    /\ UNCHANGED <<replVars, aggVars, laterVars>>

NextCalc == CallCalculateFlow \/ CallCalculateFlows \/ CallCalculateFlowsAgain \/ AnalyseAssembly

SpecCalc == InitCalc /\ [][NextCalc]_vars

----------------------------------------------------------------------------
(* Spec: assemblies, built assets and analyses over them *)

MaxAssemblies == 2

\* the longest list of assemblies an aggregate holds
MaxContained == 2

\* the assemblies constructed: no material, and the same material in two
\* assemblies of one name and in an assembly of another name, with an integer
\* and with a float quantity, and another catalog entry of the same name
AggAssemblyInputs ==
    {[name |-> "wall", epic_materials |-> <<>>],
     [name |-> "wall", epic_materials |-> <<<<<<Steel>>, PyInt(2)>>>>],
     [name |-> "roof", epic_materials |-> <<<<<<Steel>>, PyInt(3)>>>>],
     [name |-> "roof", epic_materials |-> <<<<<<Timber>>, PyFloat(1)>>, <<<<Steel>>, PyFloat(3)>>>>],
     [name |-> "floor", epic_materials |-> <<<<<<SteelOther>>, PyFloat(2)>>>>]}

\* periods of analysis: zero, and one in which Timber is replaced twice
AggPeriods == {PyInt(0), PyInt(45)}

\* the lists of one or two inputs: assemblies of the heap and the aggregate
\* constructed last
AggInputs ==
    LET items == {AssemblyRef(i) : i \in 1..Len(assemblies)}
                 \cup (IF agg = None THEN {} ELSE {AggregateRef(agg)})
    IN  {<<x>> : x \in items} \cup {<<x, y>> : x \in items, y \in items}

Init ==
    /\ assemblies = <<>>
    /\ agg = None
    /\ ReplIdle
    /\ CalcIdle
    /\ LaterIdle

\* EPiCAssembly(geometry, name, None, None, '', epic_materials, 'no.')
NewAssembly ==
    /\ Len(assemblies) < MaxAssemblies
    /\ \E input \in AggAssemblyInputs :
          assemblies' = Append(assemblies,
              EPiCAssembly(<<PyInt(5)>>, PyStr(input.name), None, None,
                           input.epic_materials, None).val)
    /\ UNCHANGED <<agg, replVars, calcVars, laterVars>>

\* EPiCBuiltAsset(name, epic_assemblies)
NewBuiltAsset ==
    /\ \E epic_inputs \in AggInputs :
          /\ Len(ContainedAssemblies(epic_inputs)) <= MaxContained
          /\ \A i \in 1..Len(epic_inputs) : epic_inputs[i].component_type = "EPiCAssembly"
          /\ \E made \in {EPiCBuiltAsset(assemblies, "EPiC Built Asset", epic_inputs)} :
                 /\ agg' = made.self
                 /\ assemblies' = made.heap
    /\ UNCHANGED <<replVars, calcVars, laterVars>>

\* EPiCAnalysis(name, epic_assemblies, period_of_analysis)
NewAnalysis ==
    /\ \E epic_inputs \in AggInputs, period \in AggPeriods :
          /\ Len(ContainedAssemblies(epic_inputs)) <= MaxContained
          /\ \E made \in {EPiCAnalysis(assemblies, "EPiC Analysis", epic_inputs, period)} :
                 /\ agg' = made.self
                 /\ assemblies' = made.heap
    /\ UNCHANGED <<replVars, calcVars, laterVars>>

Next == NewAssembly \/ NewBuiltAsset \/ NewAnalysis

Spec == Init /\ [][Next]_vars

----------------------------------------------------------------------------
(* SpecNew: the construction of one assembly *)

MaxNewMaterials == 3

\* two catalog entries of one name among the materials
NewEntries == {<<<<Steel>>, PyInt(2)>>, <<<<Steel>>, PyFloat(0 - 3)>>,
               <<<<SteelOther>>, PyFloat(3)>>, <<<<Timber>>, PyFloat(1)>>}

NewMaterialLists == UNION {[1..n -> NewEntries] : n \in 0..MaxNewMaterials}

\* no service life, zero, 15 years and 15 years given with a minus sign
NewServiceLives == {None, PyInt(0), PyInt(15), PyInt(0 - 15)}

\* periods in which 15, 20 and 30 years give different numbers of replacements
NewPeriods == {PyInt(40), PyInt(45)}

NewWastages == {None, PyInt(0)}

\* the geometry inputs: a count; a zero, an object, a null and a negative
\* number; a number and a zero; nothing
NewGeometries == {<<PyInt(5)>>, <<PyInt(0), PyObj("point"), None, PyFloat(0 - 7)>>,
                  <<PyInt(3), PyFloat(0)>>, <<>>}

InitNew ==
    /\ \E service_life \in NewServiceLives, wastage \in NewWastages,
          epic_materials \in NewMaterialLists, selected_geometry \in NewGeometries :
          n_args = [selected_geometry |-> selected_geometry, name |-> PyStr("wall"),
                    service_life |-> service_life, wastage |-> wastage,
                    epic_materials |-> epic_materials, category |-> None]
    /\ n_ret = None
    /\ n_calc = None
    /\ ReplIdle
    /\ CalcIdle
    /\ FinalIdle
    /\ AggIdle
    /\ ProcIdle
    /\ BreakIdle
    /\ CsvIdle
    /\ TextIdle

\* EPiCAssembly(selected_geometry, name, service_life, wastage, '', epic_materials, 'no.')
Construct ==
    /\ n_ret = None
    /\ n_ret' = EPiCAssembly(n_args.selected_geometry, n_args.name, n_args.service_life,
                             n_args.wastage, n_args.epic_materials, n_args.category)
    /\ UNCHANGED <<n_args, n_calc, replVars, calcVars, aggVars, procVars, breakVars, csvVars,
                   textVars, finalVars>>

\* assembly.calculate_flows(period) on the assembly constructed
CalculateFlowsOfNew ==
    /\ n_ret # None
    /\ n_ret.exc = "none"
    /\ n_calc = None
    /\ \E period \in NewPeriods :
          n_calc' = [period |-> period, val |-> CalculateFlows(n_ret.val, period).val]
    /\ UNCHANGED <<n_args, n_ret, replVars, calcVars, aggVars, procVars, breakVars, csvVars,
                   textVars, finalVars>>

NextNew == Construct \/ CalculateFlowsOfNew

SpecNew == InitNew /\ [][NextNew]_vars

----------------------------------------------------------------------------
(* SpecProc: process_inputs over two assemblies and the built assets made of them *)

MaxAssets == 2

MaxInputs == 3

\* the two assemblies of the runs
ProcAssemblies ==
    <<EPiCAssembly(<<PyInt(5)>>, PyStr("wall"), None, None, <<<<<<Steel>>, PyFloat(2)>>>>, None).val,
      EPiCAssembly(<<PyInt(5)>>, PyStr("roof"), None, None,
                   <<<<<<Timber>>, PyFloat(1)>>, <<<<Steel>>, PyFloat(3)>>>>, None).val>>

\* the assembly lists a built asset is made of: one assembly, or an assembly and
\* the one constructed before it
ProcAssetLists ==
    {<<AssemblyRef(i)>> : i \in 1..Len(assemblies)}
    \cup {<<AssemblyRef(i + 1), AssemblyRef(i)>> : i \in 1..(Len(assemblies) - 1)}

\* an EPiC object that is neither an assembly nor a built asset
MaterialInput == [component_type |-> "EPiCMaterial"]

\* the entries of a list wired to the component: nulls, the assemblies, the built
\* assets, a material and a number
ProcItems ==
    {None, PyInt(0), MaterialInput, PyInt(5)}
    \cup {AssemblyRef(i) : i \in 1..Len(assemblies)}
    \cup {p_assets[i] : i \in 1..Len(p_assets)}

ProcInputs == UNION {[1..n -> ProcItems] : n \in 1..MaxInputs}

ProcPeriods == {None, PyInt(45)}

InitProc ==
    /\ assemblies = ProcAssemblies
    /\ agg = None
    /\ p_assets = <<>>
    /\ p_ret = None
    /\ ReplIdle
    /\ CalcIdle
    /\ FinalIdle
    /\ NewIdle
    /\ BreakIdle
    /\ CsvIdle
    /\ TextIdle

\* EPiCBuiltAsset(name, epic_assemblies)
ProcNewBuiltAsset ==
    /\ p_ret = None
    /\ Len(p_assets) < MaxAssets
    /\ \E epic_inputs \in ProcAssetLists :
          \E made \in {EPiCBuiltAsset(assemblies,
                            IF Len(p_assets) = 0 THEN "first asset" ELSE "second asset",
                            epic_inputs)} :
              /\ p_assets' = Append(p_assets, AssetRef(made.self))
              /\ assemblies' = made.heap
    /\ UNCHANGED <<agg, p_ret, replVars, calcVars, newVars, breakVars, csvVars, textVars, finalVars>>

\* EPiCAnalysis.process_inputs(epic_inputs, period_of_analysis=period), as the
\* Analysis component calls it
CallProcessInputs ==
    /\ p_ret = None
    /\ \E epic_inputs \in ProcInputs, period \in ProcPeriods :
          \E result \in {ProcessInputs(assemblies, epic_inputs, period,
                                       "EPiC Analysis", "Assembly Collection")} :
              /\ p_ret' = [args |-> epic_inputs, period |-> period, exc |-> result.exc,
                           epic_analysis |-> result.epic_analysis,
                           epic_inputs |-> result.epic_inputs,
                           analyses |-> result.analyses]
              /\ assemblies' = result.heap
    /\ UNCHANGED <<agg, p_assets, replVars, calcVars, newVars, breakVars, csvVars, textVars, finalVars>>

NextProc == ProcNewBuiltAsset \/ CallProcessInputs

SpecProc == InitProc /\ [][NextProc]_vars

----------------------------------------------------------------------------
(* SpecCsv: the Analysis component run over three assemblies and the built    *)
(* assets made of them, and reports printed from its analysis                *)

MaxCsvInputs == 2

MaxExports == 2

\* a material with a comma in its name
Galvanised ==
    EPiCMaterial("steel, galvanised", PyFloat(12), PyFloat(5), PyFloat(2), "M4", None, None)

\* the three assemblies of the runs: the last one has no units
CsvAssemblies ==
    <<EPiCAssembly(<<PyInt(2)>>, PyStr("wall"), None, None, <<<<<<Steel>>, PyFloat(2)>>>>, None).val,
      EPiCAssembly(<<PyInt(5)>>, PyStr("roof"), None, None,
                   <<<<<<Timber>>, PyFloat(1)>>, <<<<Steel>>, PyFloat(3)>>,
                     <<<<Galvanised>>, PyInt(2)>>, <<<<Steel>>, PyInt(1)>>>>, None).val,
      EPiCAssembly(<<PyInt(0)>>, PyStr("slab"), None, None, <<<<<<Steel>>, PyFloat(4)>>>>, None).val>>

CsvItems ==
    {None} \cup {AssemblyRef(i) : i \in 1..Len(assemblies)}
           \cup {p_assets[i] : i \in 1..Len(p_assets)}

CsvInputs == UNION {[1..n -> CsvItems] : n \in 1..MaxCsvInputs}

\* the folder given to the component with the button pressed; None: no export
RunFolders == {None, PyStr("out"), PyStr("missing")}

\* the folder given to print_csv
CsvFolders == {None, PyStr(""), PyStr("missing"), PyStr("readonly"), PyStr("out")}

\* the exports so far
Exports == IF csv_ret = None THEN 0 ELSE csv_ret.count

InitCsv ==
    /\ assemblies = CsvAssemblies
    /\ agg = None
    /\ p_assets = <<>>
    /\ p_ret = None
    /\ csv_files = <<>>
    /\ csv_ret = None
    /\ ReplIdle
    /\ CalcIdle
    /\ FinalIdle
    /\ NewIdle
    /\ BreakIdle
    /\ TextIdle

\* RunScript of the Analysis component: process_inputs, then print_csv when the
\* button is pressed and a folder is given
AnalysisRunScript ==
    /\ p_ret = None
    /\ \E epic_inputs \in CsvInputs :
          \E result \in {ProcessInputs(assemblies, epic_inputs, PyInt(45),
                                       "EPiC Analysis", "Assembly Collection")} :
              /\ p_ret' = [args |-> epic_inputs, period |-> PyInt(45), exc |-> result.exc,
                           epic_analysis |-> result.epic_analysis,
                           epic_inputs |-> result.epic_inputs,
                           analyses |-> result.analyses]
              /\ assemblies' = result.heap
              /\ \E folder_location \in RunFolders :
                    IF folder_location = None
                    THEN UNCHANGED csvVars
                    ELSE \E printed \in {PrintCsv("EPiC Analysis", folder_location, PyInt(45),
                                                  result.epic_analysis, result.epic_inputs,
                                                  result.heap, csv_files)} :
                             /\ csv_files' = printed.files
                             /\ csv_ret' = [folder_location |-> folder_location,
                                            exc |-> printed.exc, message |-> printed.message,
                                            count |-> 1]
    /\ UNCHANGED <<agg, p_assets, replVars, calcVars, newVars, breakVars, textVars, finalVars>>

\* print_csv(report_name, folder_location, period_of_analysis, epic_analysis,
\* epic_inputs) with the analysis and the inputs of the component's run
CallPrintCsv ==
    /\ p_ret # None
    /\ Exports < MaxExports
    /\ \E folder_location \in CsvFolders :
          \E printed \in {PrintCsv("EPiC Analysis", folder_location, p_ret.period,
                                    p_ret.epic_analysis, p_ret.epic_inputs,
                                    assemblies, csv_files)} :
              /\ csv_files' = printed.files
              /\ csv_ret' = [folder_location |-> folder_location,
                             exc |-> printed.exc, message |-> printed.message,
                             count |-> Exports + 1]
    /\ UNCHANGED <<assemblies, agg, procVars, replVars, calcVars, newVars, breakVars, textVars, finalVars>>

NextCsv == ProcNewBuiltAsset \/ AnalysisRunScript \/ CallPrintCsv

SpecCsv == InitCsv /\ [][NextCsv]_vars

----------------------------------------------------------------------------
(* SpecText: a text supplied for one field of the export, stored by the       *)
(* constructor and written by print_csv                                      *)

MaxTextLen == 2

MaxItemLen == 1

MaxListLen == 2

Alphabet == {"a", ",", " "}

Strings(n) == UNION {[1..k -> Alphabet] : k \in 0..n}

\* the texts a user supplies: nothing, a string, or a list of strings
UserTexts ==
    {None}
    \cup {Text(str) : str \in Strings(MaxTextLen)}
    \cup {TextList(list) :
            list \in UNION {[1..k -> {Text(str) : str \in Strings(MaxItemLen)}] : k \in 0..MaxListLen}}

\* the names of the assembly whose category is supplied
UserNames == {None} \cup {Text(str) : str \in Strings(MaxItemLen)}

InitText ==
    /\ \E field \in TextFields, text \in UserTexts, name \in UserNames :
          /\ field # "assembly category" => name = None
          /\ t_in = [field |-> field, text |-> text, name |-> name]
    /\ t_pc = "supplied"
    /\ t_stored = None
    /\ t_written = None
    /\ ReplIdle
    /\ CalcIdle
    /\ FinalIdle
    /\ AggIdle
    /\ NewIdle
    /\ ProcIdle
    /\ BreakIdle
    /\ CsvIdle

\* the constructor of the object the field belongs to
ConstructWithText ==
    /\ t_pc = "supplied"
    /\ t_stored' = StoredField(t_in.field, t_in.text, t_in.name)
    /\ t_pc' = "constructed"
    /\ UNCHANGED <<t_in, t_written, replVars, calcVars, aggVars, newVars, procVars, breakVars, csvVars, finalVars>>

\* print_csv, writing the field
WriteText ==
    /\ t_pc = "constructed"
    /\ t_written' = WrittenField(t_in.field, t_stored, t_in.name)
    /\ t_pc' = "written"
    /\ UNCHANGED <<t_in, t_stored, replVars, calcVars, aggVars, newVars, procVars, breakVars, csvVars, finalVars>>

NextText == ConstructWithText \/ WriteText

SpecText == InitText /\ [][NextText]_vars

----------------------------------------------------------------------------
(* SpecBreak: breakdowns of materials and of the other entities *)

MaxCalls == 3

\* a material as the breakdown reads it
BreakMaterial(name, process_shares) ==
    [component_type |-> "EPiCMaterial", name |-> name, process_shares |-> process_shares]

\* the shares of a database material: a quarter, none and all of the coefficient
SharesOfSteel == PyDict([flow \in Flows |->
    IF flow = "energy" THEN PyFloat(25) ELSE IF flow = "water" THEN PyFloat(0) ELSE PyFloat(Scale)])

SharesOfTimber == PyDict([flow \in Flows |-> PyFloat(40)])

\* a database material of which one proportion is missing (nan in the database)
SharesOfGlass == PyDict([flow \in Flows |-> IF flow = "ghg" THEN None ELSE PyFloat(50)])

\* the entities a breakdown is asked of: three database materials, a custom
\* material (made without process_shares), an assembly, a built asset, an
\* analysis and a number
BreakEntities ==
    {BreakMaterial("steel", SharesOfSteel), BreakMaterial("timber", SharesOfTimber),
     BreakMaterial("glass", SharesOfGlass), BreakMaterial("custom", DictType),
     [component_type |-> "EPiCAssembly", name |-> "wall"],
     [component_type |-> "EPiCBuiltAsset", name |-> "house"],
     [component_type |-> "EPiCAnalysis", name |-> "report"],
     PyInt(5)}

InitBreak ==
    /\ b_dicts = <<HybridValueBreakdownDict>>
    /\ b_calls = <<>>
    /\ ReplIdle
    /\ CalcIdle
    /\ FinalIdle
    /\ AggIdle
    /\ NewIdle
    /\ ProcIdle
    /\ CsvIdle
    /\ TextIdle

\* EPiCBreakdown(epic_entity).breakdown_embodied_flows()
Breakdown ==
    /\ Len(b_calls) < MaxCalls
    /\ \E epic_entity \in BreakEntities :
          \E result \in {BreakdownEmbodiedFlows(epic_entity, b_dicts)} :
              /\ b_dicts' = result.dicts
              /\ b_calls' = Append(b_calls, [epic_entity |-> epic_entity,
                                             exc |-> result.exc, ref |-> result.ref])
    /\ UNCHANGED <<replVars, calcVars, aggVars, newVars, procVars, csvVars, textVars, finalVars>>

NextBreak == Breakdown

SpecBreak == InitBreak /\ [][NextBreak]_vars

----------------------------------------------------------------------------
(* SpecDb: queries of the material database *)

MaxAttributes == 2

\* a database of two materials: steel, whose density is missing (nan), and
\* timber, whose entry has no density at all
DatabaseContents ==
    ("M1" :> (("name" :> PyStr("Steel")) @@ ("Legacy_names" :> PyStr("Old steel"))
              @@ ("Energy" :> PyFloat(1000)) @@ ("Functional Unit" :> PyStr("kg"))
              @@ ("Density" :> Nan)))
    @@
    ("M2" :> (("name" :> PyStr("Timber")) @@ ("Legacy_names" :> PyStr("Old timber"))
              @@ ("Energy" :> PyFloat(300)) @@ ("Functional Unit" :> PyStr("m3"))))

\* the identifiers asked for: ids, names, decorated names, a legacy name and
\* identifiers of no material
MaterialIds ==
    {"M1", "M2", "Steel", "Timber | (m3)", "Old steel", "Unknown", "Unknown | (kg)", "M3"}

\* the attributes asked for
AttributeNames == {"Energy", "Functional Unit", "Density"}

\* the sequences of attributes of length n
RECURSIVE AttributeLists(_)
AttributeLists(n) ==
    IF n = 0 THEN {<<>>}
    ELSE {Append(l, a) : l \in AttributeLists(n - 1), a \in AttributeNames}

\* the material_attributes argument: none, one attribute, a list of attributes
MaterialAttributes ==
    {None} \cup {PyStr(a) : a \in AttributeNames}
           \cup {PyList(l) : l \in UNION {AttributeLists(n) : n \in 0..MaxAttributes}}

InitDb ==
    /\ q_ret = None
    /\ ReplIdle
    /\ CalcIdle
    /\ AggIdle
    /\ NewIdle
    /\ ProcIdle
    /\ BreakIdle
    /\ CsvIdle
    /\ TextIdle
    /\ UnitIdle
    /\ ShareIdle
    /\ LastIdle

\* EPiCDatabase.query(material_id, material_attributes)
CallQuery ==
    /\ \E material_id \in MaterialIds, material_attributes \in MaterialAttributes,
          isnan_of_text \in {"false", "TypeError"} :
          \E result \in {Query(DatabaseContents, material_id, material_attributes,
                                isnan_of_text)} :
              q_ret' = [material_id |-> material_id,
                        material_attributes |-> material_attributes,
                        isnan_of_text |-> isnan_of_text,
                        exc |-> result.exc, val |-> result.val]
    /\ UNCHANGED <<replVars, calcVars, aggVars, newVars, procVars, breakVars, csvVars, textVars,
                   unitVars, shareVars, lastVars>>

NextDb == CallQuery

SpecDb == InitDb /\ [][NextDb]_vars

----------------------------------------------------------------------------
(* SpecUnit: materials and assemblies constructed with a functional unit *)

MaxGeometries == 2

\* the functional units given: the five units, the two corrected forms, upper
\* case, two strings that are no unit, the empty string, a number and none
UnitInputs ==
    {PyStr(u) : u \in {"m", "m²", "m³", "kg", "no.", "m2", "m3", "M2", "litre", "each", ""}}
        \cup {PyInt(5), None}

\* the geometry inputs: numbers, a null, a curve, a surface, a solid
UnitGeometries ==
    UNION {[1..n -> {PyInt(3), PyFloat(0 - 150), None, PyObj("curve"), PyObj("surface"),
                     PyObj("solid")}] : n \in 0..MaxGeometries}

InitUnit ==
    /\ u_ret = None
    /\ ReplIdle
    /\ CalcIdle
    /\ AggIdle
    /\ NewIdle
    /\ ProcIdle
    /\ BreakIdle
    /\ CsvIdle
    /\ TextIdle
    /\ DbIdle
    /\ ShareIdle
    /\ LastIdle

\* RunScript of the Custom Material component
NewCustomMaterial ==
    /\ u_ret = None
    /\ \E functional_unit \in UnitInputs, energy \in {None, PyFloat(10)} :
          \E result \in {CustomMaterialRunScript(PyStr("render"), functional_unit, energy,
                                                  PyFloat(4), PyFloat(1))} :
              u_ret' = [made |-> "CustomMaterial", functional_unit |-> functional_unit,
                        inputs |-> <<energy>>,
                        exc |-> result.exc, warning |-> result.warning,
                        object |-> result.object]
    /\ UNCHANGED <<replVars, calcVars, aggVars, newVars, procVars, breakVars, csvVars, textVars,
                   dbVars, shareVars, lastVars>>

\* RunScript of the Assembly component
NewAssemblyWithUnits ==
    /\ u_ret = None
    /\ \E assembly_units \in UnitInputs, selected_geometry \in UnitGeometries :
          \E result \in {AssemblyRunScript(selected_geometry, assembly_units)} :
              u_ret' = [made |-> "EPiCAssembly", functional_unit |-> assembly_units,
                        inputs |-> selected_geometry,
                        exc |-> result.exc, warning |-> result.warning,
                        object |-> result.object]
    /\ UNCHANGED <<replVars, calcVars, aggVars, newVars, procVars, breakVars, csvVars, textVars,
                   dbVars, shareVars, lastVars>>

NextUnit == NewCustomMaterial \/ NewAssemblyWithUnits

SpecUnit == InitUnit /\ [][NextUnit]_vars

----------------------------------------------------------------------------
(* SpecShare: analyses, built assets, reports and exports over shared       *)
(* assemblies                                                                *)

MaxObjects == 2

MaxReports == 1

\* the inputs of a constructor: the roof, the wall and the roof, or an object
\* constructed before
ShareInputs ==
    {<<AssemblyRef(2)>>, <<AssemblyRef(1), AssemblyRef(2)>>}
    \cup {<<AggregateRef(s_objects[k])>> : k \in 1..Len(s_objects)}

\* the periods of the analyses: zero, and one in which Timber is replaced twice
SharePeriods == {PyInt(0), PyInt(45)}

\* the lists wired to the Analysis component: the roof, or a built asset
\* constructed before and the wall
ShareProcInputs ==
    {<<AssemblyRef(2)>>}
    \cup {<<AssetRef(s_objects[k]), AssemblyRef(1)>> :
             k \in {j \in 1..Len(s_objects) : s_objects[j].component_type = "EPiCBuiltAsset"}}

\* the period at which the Analysis component is run: Timber is replaced three
\* times in it
ShareProcPeriod == PyInt(70)

\* last with the assemblies of refs written at the period
Wrote(last, refs, period) ==
    [i \in 1..Len(last) |-> IF \E j \in 1..Len(refs) : refs[j] = i THEN period ELSE last[i]]

InitShare ==
    /\ assemblies = ProcAssemblies
    /\ agg = None
    /\ s_objects = <<>>
    /\ s_made = <<>>
    /\ s_last = [i \in 1..Len(ProcAssemblies) |-> None]
    /\ ReplIdle
    /\ CalcIdle
    /\ NewIdle
    /\ ProcIdle
    /\ BreakIdle
    /\ CsvIdle
    /\ TextIdle
    /\ DbIdle
    /\ UnitIdle
    /\ LastIdle

\* EPiCAnalysis(name, epic_assemblies, period_of_analysis)
ShareNewAnalysis ==
    /\ Len(s_objects) < MaxObjects
    /\ \E epic_inputs \in ShareInputs, period \in SharePeriods :
          \E made \in {EPiCAnalysis(assemblies, "EPiC Analysis", epic_inputs, period)} :
              /\ assemblies' = made.heap
              /\ s_objects' = Append(s_objects, made.self)
              /\ s_made' = Append(s_made, made.self.flows)
              /\ s_last' = Wrote(s_last, made.self.epic_assemblies, period)
    /\ UNCHANGED <<agg, replVars, calcVars, newVars, procVars, breakVars, csvVars, textVars,
                   dbVars, unitVars, lastVars>>

\* EPiCBuiltAsset(name, epic_assemblies)
ShareNewBuiltAsset ==
    /\ Len(s_objects) < MaxObjects
    /\ \E epic_inputs \in ShareInputs :
          \E made \in {EPiCBuiltAsset(assemblies, "house", epic_inputs)} :
              /\ assemblies' = made.heap
              /\ s_objects' = Append(s_objects, made.self)
              /\ s_made' = Append(s_made, made.self.flows)
              /\ s_last' = Wrote(s_last, made.self.epic_assemblies,
                                 PyInt(DefaultPeriodOfAnalysis))
    /\ UNCHANGED <<agg, replVars, calcVars, newVars, procVars, breakVars, csvVars, textVars,
                   dbVars, unitVars, lastVars>>

\* str(object), object.print_report()
SharePrintReport ==
    /\ \E k \in 1..Len(s_objects) :
          \E printed \in {PrintReport(assemblies, s_objects[k])} :
              /\ assemblies' = printed.heap
              /\ s_objects' = [s_objects EXCEPT ![k] = printed.self]
              /\ s_last' = Wrote(s_last, s_objects[k].epic_assemblies,
                                 s_objects[k].period_of_analysis)
    /\ UNCHANGED <<agg, s_made, replVars, calcVars, newVars, procVars, breakVars, csvVars,
                   textVars, dbVars, unitVars, lastVars>>

\* EPiCAnalysis.process_inputs(epic_inputs, period_of_analysis)
ShareProcessInputs ==
    /\ \E epic_inputs \in ShareProcInputs :
          \E result \in {ProcessInputs(assemblies, epic_inputs, ShareProcPeriod,
                                       "EPiC Analysis", "Assembly Collection")} :
              /\ assemblies' = result.heap
              /\ s_last' = Wrote(s_last, result.epic_analysis.epic_assemblies, ShareProcPeriod)
    /\ UNCHANGED <<agg, s_objects, s_made, replVars, calcVars, newVars, procVars, breakVars,
                   csvVars, textVars, dbVars, unitVars, lastVars>>

\* print_csv(report_name, folder_location, period_of_analysis, analysis,
\* epic_assemblies) for an object constructed before and the roof
SharePrintCsv ==
    /\ Cardinality(DOMAIN csv_files) < MaxReports
    /\ \E k \in 1..Len(s_objects) :
          \E printed \in {PrintCsv("EPiC Analysis", PyStr("out"),
                                    s_objects[k].period_of_analysis, s_objects[k],
                                    <<s_objects[k], AssemblyRef(2)>>, assemblies, csv_files)} :
              csv_files' = printed.files
    /\ UNCHANGED <<assemblies, agg, csv_ret, shareVars, replVars, calcVars, newVars, procVars,
                   breakVars, textVars, dbVars, unitVars, lastVars>>

NextShare ==
    \/ ShareNewAnalysis
    \/ ShareNewBuiltAsset
    \/ SharePrintReport
    \/ ShareProcessInputs
    \/ SharePrintCsv

SpecShare == InitShare /\ [][NextShare]_vars

----------------------------------------------------------------------------
(* SpecVer: exports of one report name into a folder that holds versions of it *)

MaxSearches == 2

VerFolder == "out"

VerName == "report"

\* the path of a version: 1 is report.csv, c is report_<c>.csv
VerPath(counter) == <<VerFolder, VerName, counter>>

\* the versions on disk at the start: the first k, and all or all but the last
\* with one of them deleted
InitialVersions ==
    {1..k : k \in 0..MaxVersions}
        \cup {(1..k) \ {h} : k \in {MaxVersions - 1, MaxVersions}, h \in 1..(MaxVersions - 1)}

InitVer ==
    /\ \E versions \in InitialVersions :
          csv_files = [path \in {VerPath(c) : c \in versions} |->
                          [report_name |-> VerName, written_by |-> 0]]
    /\ csv_ret = None
    /\ v_pc = "idle"
    /\ v_counter = 1
    /\ v_filepath = <<>>
    /\ v_start = <<>>
    /\ v_done = 0
    /\ v_last = None
    /\ ReplIdle
    /\ CalcIdle
    /\ AggIdle
    /\ NewIdle
    /\ ProcIdle
    /\ BreakIdle
    /\ TextIdle
    /\ DbIdle
    /\ UnitIdle
    /\ ShareIdle
    /\ ListIdle

\* print_csv up to the first test of os.path.exists(filepath)
BeginPrintCsv ==
    /\ v_pc = "idle"
    /\ v_done < MaxSearches
    /\ v_counter' = 1
    /\ v_filepath' = VerPath(1)
    /\ v_start' = csv_files
    /\ v_pc' = IF VerPath(1) \in DOMAIN csv_files THEN "search" ELSE "open"
    /\ UNCHANGED <<csvVars, v_done, v_last, listVars, replVars, calcVars, aggVars, newVars,
                   procVars, breakVars, textVars, dbVars, unitVars, shareVars>>

\* one test of the while loop, and its body when the test holds
SearchTest ==
    /\ v_pc = "search"
    /\ IF SearchContinues(v_filepath \in DOMAIN csv_files, v_counter)
       THEN /\ v_counter' = v_counter + 1
            /\ v_filepath' = VerPath(v_counter + 1)
            /\ v_pc' = "search"
       ELSE /\ v_pc' = "open"
            /\ UNCHANGED <<v_counter, v_filepath>>
    /\ UNCHANGED <<csvVars, v_start, v_done, v_last, listVars, replVars, calcVars, aggVars,
                   newVars, procVars, breakVars, textVars, dbVars, unitVars, shareVars>>

\* with open(filepath, 'wb') as csv, and the report written
OpenAndWrite ==
    /\ v_pc = "open"
    /\ csv_files' = WriteFile(csv_files, v_filepath,
                              [report_name |-> VerName, written_by |-> v_done + 1])
    /\ v_last' = [filepath |-> v_filepath, steps |-> v_counter - 1, start |-> v_start]
    /\ v_done' = v_done + 1
    /\ v_pc' = "idle"
    /\ UNCHANGED <<csv_ret, v_counter, v_filepath, v_start, listVars, replVars, calcVars, aggVars,
                   newVars, procVars, breakVars, textVars, dbVars, unitVars, shareVars>>

NextVer == BeginPrintCsv \/ SearchTest \/ OpenAndWrite

SpecVer == InitVer /\ [][NextVer]_vars

\* a call of print_csv that has begun goes on to its end
SpecVerFair == SpecVer /\ WF_vars(SearchTest) /\ WF_vars(OpenAndWrite)

----------------------------------------------------------------------------
(* SpecList: calls of recreate_material_list, from the host and from within   *)
(* a regeneration                                                            *)

MaxListCalls == 3

\* the deepest nesting of regenerations the runs allow
MaxDepth == 2

\* a known category, another one, an unknown one, and the list the Material
\* component passes
ListCategories == {PyStr("Metals"), PyStr("Timber"), PyStr("Glass"), PyList(<<PyStr("Metals")>>)}

\* ghObject: the dropdown, or the objects of the document (the Material component)
GhObjects == {"valuelist", "objects"}

\* component: the component, or its Params (the Material component)
Components == {"component", "params"}

SetMaterials == {None, PyStr("M5")}

InitList ==
    /\ sticky = <<>>
    /\ l_items = <<>>
    /\ l_stack = <<>>
    /\ l_calls = 0
    /\ l_last = None
    /\ ReplIdle
    /\ CalcIdle
    /\ AggIdle
    /\ NewIdle
    /\ ProcIdle
    /\ BreakIdle
    /\ CsvIdle
    /\ TextIdle
    /\ DbIdle
    /\ UnitIdle
    /\ ShareIdle
    /\ VerIdle

\* a call can be made: by the host when none is in progress, and from within a
\* host call of the regeneration in progress
CanCall ==
    /\ l_calls < MaxListCalls
    /\ Len(l_stack) < MaxDepth
    /\ l_stack # <<>> => Top(l_stack).pc \in HostCalls

\* recreate_material_list(...) finding the flag False: the flag is set
EnterRegeneration ==
    /\ CanCall
    /\ IsNotRunning(WithIsRunning(sticky))
    /\ \E material_category \in ListCategories, ghObject \in GhObjects,
          component \in Components, set_material \in SetMaterials :
          l_stack' = Append(l_stack,
              [pc |-> "sort", material_category |-> material_category, ghObject |-> ghObject,
               component |-> component, set_material |-> set_material,
               new_list |-> <<>>, selected_material |-> 0, skipped |-> 0])
    /\ sticky' = SetIsRunning(WithIsRunning(sticky), TRUE)
    /\ l_calls' = l_calls + 1
    /\ UNCHANGED <<l_items, l_last, verVars, replVars, calcVars, aggVars, newVars, procVars,
                   breakVars, csvVars, textVars, dbVars, unitVars, shareVars>>

\* recreate_material_list(...) finding the flag True: it returns
SkipWhileRunning ==
    /\ CanCall
    /\ ~IsNotRunning(WithIsRunning(sticky))
    /\ sticky' = WithIsRunning(sticky)
    /\ l_calls' = l_calls + 1
    /\ l_stack' = IF l_stack = <<>> THEN l_stack
                  ELSE [l_stack EXCEPT ![Len(l_stack)].skipped = @ + 1]
    /\ l_last' = [found_running |-> TRUE, raised |-> FALSE, depth |-> Len(l_stack), skipped |-> 0,
                  sticky_before |-> sticky, sticky_after |-> sticky',
                  items_before |-> l_items, items_after |-> l_items]
    /\ UNCHANGED <<l_items, verVars, replVars, calcVars, aggVars, newVars, procVars,
                   breakVars, csvVars, textVars, dbVars, unitVars, shareVars>>

\* new_list = zip(*sorted(epic_db.dict_of_categories[material_category].items()))
SortCategory ==
    /\ l_stack # <<>>
    /\ Top(l_stack).pc = "sort"
    /\ \E sorted \in {NewList(Top(l_stack).material_category)} :
          l_stack' = IF sorted.exc = "none"
                     THEN [l_stack EXCEPT ![Len(l_stack)].pc = "clear",
                                          ![Len(l_stack)].new_list = sorted.val]
                     ELSE AtStatement(l_stack, "except")
    /\ UNCHANGED <<sticky, l_items, l_calls, l_last, verVars, replVars, calcVars, aggVars, newVars,
                   procVars, breakVars, csvVars, textVars, dbVars, unitVars, shareVars>>

\* ghObject.ListItems.Clear(): the objects of a document have no ListItems
ClearItems ==
    /\ l_stack # <<>>
    /\ Top(l_stack).pc = "clear"
    /\ IF Top(l_stack).ghObject = "valuelist"
       THEN /\ l_items' = <<>>
            /\ l_stack' = AtStatement(l_stack, "add")
       ELSE /\ l_items' = l_items
            /\ l_stack' = AtStatement(l_stack, "except")
    /\ UNCHANGED <<sticky, l_calls, l_last, verVars, replVars, calcVars, aggVars, newVars,
                   procVars, breakVars, csvVars, textVars, dbVars, unitVars, shareVars>>

\* the loop that adds an item for every material of the category
AddItems ==
    /\ l_stack # <<>>
    /\ Top(l_stack).pc = "add"
    /\ l_items' = [i \in 1..Len(Top(l_stack).new_list) |-> Top(l_stack).new_list[i][1]]
    /\ l_stack' = [l_stack EXCEPT ![Len(l_stack)].pc = "select",
                                  ![Len(l_stack)].selected_material =
                                      SelectedMaterial(Top(l_stack).new_list,
                                                       Top(l_stack).set_material)]
    /\ UNCHANGED <<sticky, l_calls, l_last, verVars, replVars, calcVars, aggVars, newVars,
                   procVars, breakVars, csvVars, textVars, dbVars, unitVars, shareVars>>

\* if selected_material: ghObject.SelectItem(selected_material)
SelectItem ==
    /\ l_stack # <<>>
    /\ Top(l_stack).pc = "select"
    /\ l_stack' = AtStatement(l_stack, "expire")
    /\ UNCHANGED <<sticky, l_items, l_calls, l_last, verVars, replVars, calcVars, aggVars, newVars,
                   procVars, breakVars, csvVars, textVars, dbVars, unitVars, shareVars>>

\* component.OnPingDocument().ScheduleSolution(5, ghObject.ExpireSolution(True)):
\* Params has no OnPingDocument, and the host may refuse the callback
ExpireSolution ==
    /\ l_stack # <<>>
    /\ Top(l_stack).pc = "expire"
    /\ \E refused \in BOOLEAN :
          l_stack' = IF Top(l_stack).component = "params" \/ refused
                     THEN AtStatement(l_stack, "except")
                     ELSE AtStatement(l_stack, "reset")
    /\ UNCHANGED <<sticky, l_items, l_calls, l_last, verVars, replVars, calcVars, aggVars, newVars,
                   procVars, breakVars, csvVars, textVars, dbVars, unitVars, shareVars>>

\* st["is_running"] = False at the end of the try block, or in the except
\* clause, and the return
ResetAndReturn ==
    /\ l_stack # <<>>
    /\ Top(l_stack).pc \in {"reset", "except"}
    /\ sticky' = SetIsRunning(sticky, FALSE)
    /\ l_stack' = Popped(l_stack)
    /\ l_last' = [found_running |-> FALSE, raised |-> Top(l_stack).pc = "except",
                  depth |-> Len(l_stack) - 1, skipped |-> Top(l_stack).skipped,
                  sticky_before |-> sticky, sticky_after |-> sticky',
                  items_before |-> l_items, items_after |-> l_items]
    /\ UNCHANGED <<l_items, l_calls, verVars, replVars, calcVars, aggVars, newVars, procVars,
                   breakVars, csvVars, textVars, dbVars, unitVars, shareVars>>

\* a statement of the innermost call in progress
Statement ==
    SortCategory \/ ClearItems \/ AddItems \/ SelectItem \/ ExpireSolution \/ ResetAndReturn

NextList == EnterRegeneration \/ SkipWhileRunning \/ Statement

SpecList == InitList /\ [][NextList]_vars

\* a call in progress goes on
SpecListFair == SpecList /\ WF_vars(Statement)

----------------------------------------------------------------------------
(* Properties of the replacement scheduler (SpecRepl) *)

\* C8: for every period p and every service life s > 0, _get_num_replacements(p, s)
\* returns 0 when s >= p, p // s - 1 when s < p and s divides p, and p // s
\* otherwise; the result is never negative.
NumReplacementsValue ==
    (rp_call = "_get_num_replacements" /\ rp_service.k = "int" /\ rp_service.v > 0) =>
        /\ rp_ret.exc = "none"
        /\ rp_ret.val.k = "int"
        /\ rp_ret.val.v >= 0
        /\ rp_service.v >= rp_period.v => rp_ret.val.v = 0
        /\ (rp_service.v < rp_period.v /\ rp_period.v % rp_service.v = 0)
               => rp_ret.val.v = (rp_period.v \div rp_service.v) - 1
        /\ (rp_service.v < rp_period.v /\ rp_period.v % rp_service.v # 0)
               => rp_ret.val.v = rp_period.v \div rp_service.v

\* C8's case: a service life that divides a longer period evenly, with
\* replacements counted (12 years and 4 years give 2)
NumReplacementsDivides ==
    /\ rp_call = "_get_num_replacements"
    /\ rp_service.k = "int" /\ rp_service.v > 0
    /\ rp_service.v < rp_period.v
    /\ rp_period.v % rp_service.v = 0
    /\ rp_ret = Returned(PyInt((rp_period.v \div rp_service.v) - 1))
    /\ rp_ret.val.v >= 2

\* C9: _get_num_replacements returns 0, and does not raise, whenever the service
\* life is 0 or None, for every period; _get_accumulated_number_of_instances,
\* which calls it, does not raise either.
NoServiceLifeNoReplacement ==
    (rp_call # "none" /\ (rp_service.k = "none" \/ rp_service.v = 0)) =>
        /\ rp_ret.exc = "none"
        /\ rp_call = "_get_num_replacements" => rp_ret.val = PyInt(0)

----------------------------------------------------------------------------
(* Properties of the flow calculation (SpecCalc) *)

\* f[1] + ... + f[n]
RECURSIVE SumOver(_, _)
SumOver(f, n) == IF n = 0 THEN 0 ELSE SumOver(f, n - 1) + f[n]

Magnitude(n) == IF n < 0 THEN 0 - n ELSE n

\* the quantity a call of _calculate_flows works with
CallQuantity == IF c_ret.quantity.k = "none" THEN c_asm.total_units.v ELSE c_ret.quantity.v

\* quantity * |quantity per unit| * coefficient(flow) * (base + w) of material
\* number i of the assembly under calculation, in hundredths
Contribution(i) ==
    LET material == c_asm.epic_materials[i][1]
        base == IF c_ret.wastage_only THEN 0 ELSE Scale
        w == IF c_asm.wastage_override.k # "none" THEN c_asm.wastage_override.v
             ELSE material.wastage.v
    IN  CallQuantity * Magnitude(c_asm.epic_materials[i][2].v) * material[c_ret.flow].v * (base + w)

\* the number of replacements as C8 states it
Replacements(p, s) == IF s >= p THEN 0 ELSE IF p % s = 0 THEN (p \div s) - 1 ELSE p \div s

\* the assembly of the scenario: 2 units of Steel per unit, 5 units, no override
IsScenarioAssembly ==
    /\ c_asm.epic_materials = <<<<Steel, PyInt(2)>>>>
    /\ c_asm.total_units.v = 5
    /\ c_asm.wastage_override = None

\* C1: _calculate_flows with period None returns the sum over the materials of
\* quantity * |quantity per unit| * coefficient(flow) * (base + w), base 0 when
\* wastage_only else 1, w the assembly's wastage override when one was supplied
\* (0 included, which makes every wastage bucket 0) and the material's own
\* wastage otherwise; energy 10, wastage 10 %, 2 per unit and 5 units give 110
\* and 10 of wastage.
InitialFlowFormula ==
    (c_ret.call = "_calculate_flows" /\ c_ret.period = None) =>
        /\ c_ret.val.v = SumOver([i \in 1..Len(c_asm.epic_materials) |-> Contribution(i)],
                                 Len(c_asm.epic_materials))
        /\ (c_asm.wastage_override.k # "none" /\ c_asm.wastage_override.v = 0 /\ c_ret.wastage_only)
               => c_ret.val.v = 0
        /\ (IsScenarioAssembly /\ c_ret.flow = "energy" /\ c_ret.quantity = None)
               => c_ret.val.v = (IF c_ret.wastage_only THEN 10 ELSE 110) * Scale

\* C1's case: the scenario's assembly gives an initial energy of 110
ScenarioInitialEnergy ==
    /\ c_ret.call = "_calculate_flows"
    /\ c_ret.period = None
    /\ IsScenarioAssembly
    /\ c_ret.flow = "energy" /\ ~c_ret.wastage_only /\ c_ret.quantity = None
    /\ c_ret.val = PyFloat(110 * Scale)

\* C2: for a period > 0, an assembly with a service-life override multiplies the
\* summed contributions by the replacements of its own service life, whatever
\* the materials' service lives are; without one, each material's contribution
\* is multiplied by the replacements of that material's service life, and a
\* material whose service life is 0 or None contributes 0 instead of raising.
RecurrentFlowFormula ==
    (c_ret.call = "_calculate_flows" /\ c_ret.period.k = "int" /\ c_ret.period.v > 0) =>
        LET n == Len(c_asm.epic_materials)
            own(i) == LET s == c_asm.epic_materials[i][1].service_life
                      IN  IF s.k = "none" \/ s.v = 0 THEN 0 ELSE Replacements(c_ret.period.v, s.v)
        IN  IF c_asm.service_life.k # "none"
            THEN c_ret.val.v = SumOver([i \in 1..n |-> Contribution(i)], n)
                                   * Replacements(c_ret.period.v, c_asm.service_life.v)
            ELSE c_ret.val.v = SumOver([i \in 1..n |-> Contribution(i) * own(i)], n)

\* C2's case: no override, a material without a service life beside one that is
\* replaced twice in the period
OwnServiceLivesUsed ==
    /\ c_ret.call = "_calculate_flows"
    /\ c_ret.period = PyInt(45)
    /\ c_asm.service_life = None
    /\ Len(c_asm.epic_materials) = 2
    /\ c_asm.epic_materials[1][1] = Steel
    /\ c_asm.epic_materials[2][1] = Timber
    /\ ~c_ret.wastage_only
    /\ c_ret.val.v = 2 * Contribution(2)
    /\ c_ret.val.v > 0

\* a flow-totals record without recurrent flows: both recurrent buckets are 0
\* and the life-cycle buckets equal the initial ones, for every flow
NoRecurrentFlows(record) ==
    \A f \in Flows :
        /\ record.v["recurrent"].v[f].v = 0
        /\ record.v["recurrent_wastage"].v[f].v = 0
        /\ record.v["life_cycle"].v[f].v = record.v["initial"].v[f].v
        /\ record.v["life_cycle_wastage"].v[f].v = record.v["initial_wastage"].v[f].v

\* the same for the record and for each of its by_material entries
NoRecurrentFlowsAnywhere(flows) ==
    /\ NoRecurrentFlows(flows)
    /\ \A name \in Keys(flows.v["by_material"]) : NoRecurrentFlows(flows.v["by_material"].v[name])

\* C3: flows computed with no period of analysis or with period 0, by
\* calculate_flows or by an EPiCAnalysis constructed with that period, have the
\* recurrent and recurrent_wastage buckets 0 for every flow, in the assembly
\* total and in every by_material entry, and life_cycle equal to initial,
\* whatever the service lives of the assembly and its materials.
NoPeriodNoRecurrent ==
    (c_ret.call \in {"calculate_flows", "EPiCAnalysis"} /\ c_ret.period \in {None, PyInt(0)}) =>
        /\ NoRecurrentFlowsAnywhere(c_ret.val)
        /\ c_ret.call = "EPiCAnalysis" => NoRecurrentFlowsAnywhere(c_asm.recalculated_flows)

\* C3's case: an analysis with period 0 over an assembly with a service-life
\* override and a material that has a service life of its own
ZeroPeriodAnalysis ==
    /\ c_ret.call = "EPiCAnalysis"
    /\ c_ret.period = PyInt(0)
    /\ c_asm.service_life = PyInt(15)
    /\ HasKey(c_ret.val.v["by_material"], "timber")
    /\ c_ret.val.v["initial"].v["energy"].v > 0
    /\ c_ret.val.v["recurrent"].v["energy"] = PyFloat(0)
    /\ c_ret.val.v["by_material"].v["timber"].v["life_cycle"].v["energy"].v > 0

\* life_cycle = initial + recurrent and the same for the wastage buckets
LifeCycleIsSum(record) ==
    \A f \in Flows :
        /\ record.v["life_cycle"].v[f].v = record.v["initial"].v[f].v + record.v["recurrent"].v[f].v
        /\ record.v["life_cycle_wastage"].v[f].v
               = record.v["initial_wastage"].v[f].v + record.v["recurrent_wastage"].v[f].v

LifeCycleIsSumAnywhere(flows) ==
    /\ LifeCycleIsSum(flows)
    /\ \A name \in Keys(flows.v["by_material"]) : LifeCycleIsSum(flows.v["by_material"].v[name])

\* C4: every flow-totals record calculate_flows produces, for any period, the
\* assembly-level record and each by_material entry, entries merged from
\* several materials of one name included, has life_cycle = initial + recurrent
\* and life_cycle_wastage = initial_wastage + recurrent_wastage for every flow.
LifeCycleIsInitialPlusRecurrent ==
    /\ LifeCycleIsSumAnywhere(c_asm.flows)
    /\ LifeCycleIsSumAnywhere(c_asm.recalculated_flows)
    /\ c_ret.call = "calculate_flows" => LifeCycleIsSumAnywhere(c_ret.val)

\* C4's case: two entries of one material merged, replaced twice in the period
MergedEntryWithRecurrent ==
    /\ c_ret.call = "calculate_flows"
    /\ c_ret.period = PyInt(45)
    /\ c_asm.service_life = None
    /\ Len(c_asm.epic_materials) = 2
    /\ c_asm.epic_materials[1][1] = Timber
    /\ c_asm.epic_materials[2][1] = Timber
    /\ c_ret.val.v["by_material"].v["timber"].v["quantity"].v = 2
    /\ c_ret.val.v["by_material"].v["timber"].v["recurrent"].v["energy"].v
           = 2 * c_ret.val.v["by_material"].v["timber"].v["initial"].v["energy"].v
    /\ c_ret.val.v["by_material"].v["timber"].v["life_cycle"].v["energy"].v
           = 3 * c_ret.val.v["by_material"].v["timber"].v["initial"].v["energy"].v
    /\ c_ret.val.v["by_material"].v["timber"].v["initial"].v["energy"].v > 0

----------------------------------------------------------------------------
(* Properties of the construction (SpecNew) *)

\* the material of entry number i of the constructor's list
ArgMaterial(i) == n_args.epic_materials[i][1][1]

\* two entries of the list have one name and different catalog identifiers
HasNameConflict ==
    \E i, j \in 1..Len(n_args.epic_materials) :
        /\ ArgMaterial(i).name = ArgMaterial(j).name
        /\ ArgMaterial(i).material_id # ArgMaterial(j).material_id

\* 1 for the entries of the list named name, 0 for the others
Named(i, name) == IF ArgMaterial(i).name = name THEN 1 ELSE 0

\* C11: calculate_flows raises, and returns no merged result, whenever the
\* material list holds two materials of one name with different catalog
\* identifiers; when the names and the identifiers both match, the entries are
\* merged into one by_material entry whose quantity and bucket values are the
\* sums.
NameConflictRaises ==
    (n_ret # None) =>
        IF HasNameConflict
        THEN n_ret.exc # "none" /\ n_ret.val = None
        ELSE /\ n_ret.exc = "none"
             /\ LET self == n_ret.val
                     n == Len(n_args.epic_materials)
                     alone == [i \in 1..n |-> FillFlowsDict(self, None, <<self.epic_materials[i]>>, None)]
                 IN  /\ Keys(self.flows.v["by_material"]) = {ArgMaterial(i).name : i \in 1..n}
                     /\ \A name \in Keys(self.flows.v["by_material"]) :
                            LET entry == self.flows.v["by_material"].v[name]
                            IN  /\ entry.v["quantity"].v
                                       = SumOver([i \in 1..n |->
                                             Named(i, name) * Magnitude(n_args.epic_materials[i][2].v)], n)
                                /\ \A b \in Buckets, f \in Flows :
                                       entry.v[b].v[f].v
                                           = SumOver([i \in 1..n |->
                                                 Named(i, name) * alone[i].v[b].v[f].v], n)

\* C11's case: two entries of one catalog entry, which merge, and then a third
\* of the same name from another catalog entry: the call raises ValueError
NameConflictAfterMerge ==
    /\ n_ret # None
    /\ Len(n_args.epic_materials) = 3
    /\ ArgMaterial(1) = Steel /\ ArgMaterial(2) = Steel /\ ArgMaterial(3) = SteelOther
    /\ n_ret = Raised("ValueError")

----------------------------------------------------------------------------
(* Properties of the aggregation (Spec) *)

\* the assemblies the aggregate constructed last holds, as objects
Contained == [j \in 1..Len(agg.epic_assemblies) |-> assemblies[agg.epic_assemblies[j]]]

IsAnalysis == agg # None /\ agg.component_type = "EPiCAnalysis"

IsBuiltAsset == agg # None /\ agg.component_type = "EPiCBuiltAsset"

\* the sum of recalculated_flows[b][f] over the contained assemblies of the
\* categories in cats
SumOfAssemblies(b, f, cats) ==
    SumOver([j \in 1..Len(Contained) |->
                 IF Contained[j].category \in cats
                 THEN Contained[j].recalculated_flows.v[b].v[f].v ELSE 0],
            Len(Contained))

Categories == {Contained[j].category : j \in 1..Len(Contained)}

\* C5: for every EPiCAnalysis, bucket b and flow f, flows[b][f] is the sum of
\* recalculated_flows[b][f] over the contained assemblies and
\* flows['by_assembly'][c][b][f] is that sum over the assemblies of category c,
\* for any number and order of assemblies, assemblies without materials included.
FlowsAreSumsOfAssemblies ==
    IsAnalysis =>
        \A b \in Buckets, f \in Flows :
            /\ agg.flows.v[b].v[f].v = SumOfAssemblies(b, f, Categories)
            /\ \A c \in Categories :
                   agg.flows.v["by_assembly"].v[c].v[b].v[f].v = SumOfAssemblies(b, f, {c})

\* what calculate_flows(period) gives for the assemblies numbered in refs
AreRecalculated(refs, period) ==
    \A j \in 1..Len(refs) :
        assemblies[refs[j]].recalculated_flows = CalculateFlows(assemblies[refs[j]], period).val

\* C6: after an EPiCAnalysis is constructed with period p, every assembly it
\* contains, passed directly or reached through a contained built asset or
\* nested analysis, has recalculated_flows = calculate_flows(p).
ContainedAreRecalculated ==
    IsAnalysis =>
        /\ AreRecalculated(agg.epic_assemblies, agg.period_of_analysis)
        /\ \A i \in 1..Len(agg.built_asset_objects) :
               AreRecalculated(agg.built_asset_objects[i].epic_assemblies, agg.period_of_analysis)

\* C6's case: an analysis with a nonzero period over a built asset whose
\* assembly then carries recurrent flows
BuiltAssetInsideAnalysis ==
    /\ IsAnalysis
    /\ agg.period_of_analysis = PyInt(45)
    /\ \E i \in 1..Len(agg.built_asset_objects) :
          /\ agg.built_asset_objects[i].component_type = "EPiCBuiltAsset"
          /\ \E j \in 1..Len(agg.built_asset_objects[i].epic_assemblies) :
                LET assembly == assemblies[agg.built_asset_objects[i].epic_assemblies[j]]
                IN  /\ assembly.recalculated_flows.v["recurrent"].v["energy"].v > 0
                    /\ assembly.recalculated_flows # assembly.flows

\* C7: a built asset's flows hold no recurrent flows: recurrent and
\* recurrent_wastage are 0 for every flow in the total, in every by_material
\* entry and in every by_assembly entry, so life_cycle equals initial.
BuiltAssetHasNoRecurrent ==
    IsBuiltAsset =>
        /\ NoRecurrentFlowsAnywhere(agg.flows)
        /\ \A c \in Keys(agg.flows.v["by_assembly"]) :
               NoRecurrentFlows(agg.flows.v["by_assembly"].v[c])

\* the materials of the contained assemblies
ContainedMaterials ==
    UNION {{Contained[j].epic_materials[i][1] : i \in 1..Len(Contained[j].epic_materials)}
           : j \in 1..Len(Contained)}

\* two contained assemblies hold materials of one name from different catalog entries
NameConflictAmongAssemblies ==
    \E m1, m2 \in ContainedMaterials : m1.name = m2.name /\ m1.material_id # m2.material_id

\* C12: when two assemblies an EPiCAnalysis merges hold materials of one display
\* name and different catalog identifiers, an error is raised: no analysis is
\* constructed over them, and their quantities and flows are never added into
\* one by_material entry.
AnalysisRefusesNameConflict == IsAnalysis => ~NameConflictAmongAssemblies

\* the sum of the values of a function with a finite domain
RECURSIVE FnSum(_)
FnSum(g) ==
    IF DOMAIN g = {} THEN 0
    ELSE LET x == CHOOSE x \in DOMAIN g : TRUE
         IN  g[x] + FnSum([y \in DOMAIN g \ {x} |-> g[y]])

\* contained assembly number j holds a material named m
Holds(j, m) ==
    \E i \in 1..Len(Contained[j].epic_materials) : Contained[j].epic_materials[i][1].name = m

\* the names of the contained assemblies that hold a material named m
AssemblyNamesHolding(m) == {Contained[j].name : j \in {j \in 1..Len(Contained) : Holds(j, m)}}

\* the sum of m's by_material[b][f] over the contained assemblies named a
SumOfMaterialIn(m, a, b, f) ==
    SumOver([j \in 1..Len(Contained) |->
                 IF Contained[j].name = a /\ Holds(j, m)
                 THEN Contained[j].recalculated_flows.v["by_material"].v[m].v[b].v[f].v ELSE 0],
            Len(Contained))

\* C13: in an analysis's flows, flows['by_material'][m]['by_assembly'][a][b][f]
\* exists exactly when a contained assembly named a holds material m, is the sum
\* of m's by_material[b][f] over the contained assemblies named a, and summed
\* over all a gives flows['by_material'][m][b][f].
MaterialByAssemblyCrossTab ==
    (agg # None) =>
        LET by_material == agg.flows.v["by_material"]
        IN  /\ Keys(by_material) = {material.name : material \in ContainedMaterials}
            /\ \A m \in Keys(by_material) :
                   LET by_assembly == DictGet(by_material.v[m], "by_assembly", EmptyDict)
                   IN  /\ Keys(by_assembly) = AssemblyNamesHolding(m)
                       /\ \A b \in Buckets, f \in Flows :
                              /\ \A a \in Keys(by_assembly) :
                                     by_assembly.v[a].v[b].v[f].v = SumOfMaterialIn(m, a, b, f)
                              /\ FnSum([a \in Keys(by_assembly) |-> by_assembly.v[a].v[b].v[f].v])
                                     = by_material.v[m].v[b].v[f].v

\* C13's case: two assemblies named roof hold steel, one of them timber too,
\* and steel's entry for roof is the sum of both
SteelInTwoRoofs ==
    /\ IsAnalysis
    /\ agg.period_of_analysis = PyInt(45)
    /\ Len(Contained) = 2
    /\ Contained[1].name = "roof" /\ Contained[2].name = "roof"
    /\ Contained[1].epic_materials # Contained[2].epic_materials
    /\ Keys(agg.flows.v["by_material"]) = {"steel", "timber"}
    /\ Keys(agg.flows.v["by_material"].v["steel"].v["by_assembly"]) = {"roof"}
    /\ agg.flows.v["by_material"].v["steel"].v["by_assembly"].v["roof"].v["initial"].v["energy"].v
           = Contained[1].recalculated_flows.v["by_material"].v["steel"].v["initial"].v["energy"].v
             + Contained[2].recalculated_flows.v["by_material"].v["steel"].v["initial"].v["energy"].v
    /\ agg.flows.v["by_material"].v["timber"].v["by_assembly"].v["roof"].v["recurrent"].v["energy"].v > 0

\* the by_material entries for name of the contained assemblies that use it
EntriesOf(name) ==
    [j \in 1..Len(Contained) |->
        IF HasKey(Contained[j].recalculated_flows.v["by_material"], name)
        THEN <<Contained[j].recalculated_flows.v["by_material"].v[name]>> ELSE <<>>]

\* C10: the aggregated by_material entry of a material that several assemblies
\* contain, with one name and one catalog id, has quantity equal to the sum of
\* the merged quantities (2 and 3 give 5) and every bucket and flow equal to the
\* sum over the assemblies, for integer and for float quantities.
MergedMaterialIsSum ==
    IsAnalysis =>
        \A name \in Keys(agg.flows.v["by_material"]) :
            LET entries == Concat(EntriesOf(name))
                merged == agg.flows.v["by_material"].v[name]
            IN  /\ merged.v["quantity"].v
                       = SumOver([i \in 1..Len(entries) |-> entries[i].v["quantity"].v], Len(entries))
                /\ \A b \in Buckets, f \in Flows :
                       merged.v[b].v[f].v
                           = SumOver([i \in 1..Len(entries) |-> entries[i].v[b].v[f].v], Len(entries))

----------------------------------------------------------------------------
(* Properties of process_inputs (SpecProc) *)

\* the entries of the list given that are assemblies or built assets, in order
KeptInputs ==
    SelectSeq(p_ret.args,
              LAMBDA x : /\ "component_type" \in DOMAIN x
                         /\ x.component_type \in {"EPiCAssembly", "EPiCBuiltAsset"})

GivenAssets == SelectSeq(KeptInputs, LAMBDA x : x.component_type = "EPiCBuiltAsset")

GivenLoose == SelectSeq(KeptInputs, LAMBDA x : x.component_type = "EPiCAssembly")

\* the assemblies of the built assets from number i on, then the loose ones
RECURSIVE ExpectedAssemblies(_)
ExpectedAssemblies(i) ==
    IF i > Len(GivenAssets) THEN [j \in 1..Len(GivenLoose) |-> GivenLoose[j].ref]
    ELSE GivenAssets[i].epic_assemblies \o ExpectedAssemblies(i + 1)

\* every entry of the list given is null or an EPiC object
OnlyEPiCEntries ==
    \A i \in 1..Len(p_ret.args) :
        IsNull(p_ret.args[i]) \/ "component_type" \in DOMAIN p_ret.args[i]

\* the outcome of the call is the grouping described
GroupsAsDescribed ==
    /\ p_ret.exc = "none"
    /\ p_ret.epic_inputs = KeptInputs
    /\ Len(p_ret.analyses) = Len(GivenAssets) + (IF Len(GivenLoose) > 0 THEN 1 ELSE 0)
    /\ \A i \in 1..Len(GivenAssets) :
           /\ p_ret.analyses[i].component_type = "EPiCAnalysis"
           /\ p_ret.analyses[i].name = GivenAssets[i].name
           /\ p_ret.analyses[i].epic_assemblies = GivenAssets[i].epic_assemblies
    /\ Len(GivenLoose) > 0 =>
           LET last == p_ret.analyses[Len(p_ret.analyses)]
           IN  /\ last.name = "Assembly Collection"
               /\ last.epic_assemblies = ExpectedAssemblies(Len(GivenAssets) + 1)
    /\ IF Len(KeptInputs) = 0 THEN p_ret.epic_analysis = None
       ELSE /\ p_ret.epic_analysis # None
            /\ p_ret.epic_analysis.component_type = "EPiCAnalysis"
            /\ p_ret.epic_analysis.epic_assemblies = ExpectedAssemblies(1)
            /\ \A j \in 1..Len(ExpectedAssemblies(1)) :
                   LET a == assemblies[ExpectedAssemblies(1)[j]]
                   IN  a.recalculated_flows = CalculateFlows(a, p_ret.period).val

\* C15: process_inputs drops the null entries and the entries that are neither
\* an assembly nor a built asset, builds one intermediate analysis per built
\* asset and one for the loose assemblies, and returns a top-level analysis whose
\* assemblies are those of each built asset in input order, then the loose ones,
\* all recalculated at the period given; with nothing left it returns no analysis.
ProcessInputsGroups == (p_ret # None) => GroupsAsDescribed

\* the same for the lists whose entries are all null or EPiC objects
ProcessInputsGroupsEPiCEntries == (p_ret # None /\ OnlyEPiCEntries) => GroupsAsDescribed

\* an asset, a dropped material and a loose assembly are grouped
GroupedWithMaterialDropped ==
    /\ p_ret # None
    /\ Len(p_ret.args) = 3
    /\ p_ret.args[1] = AssemblyRef(1)
    /\ p_ret.args[2] = MaterialInput
    /\ "component_type" \in DOMAIN p_ret.args[3]
    /\ p_ret.args[3].component_type = "EPiCBuiltAsset"
    /\ p_ret.args[3].epic_assemblies = <<2, 1>>
    /\ p_ret.period = PyInt(45)
    /\ p_ret.epic_analysis # None
    /\ p_ret.epic_analysis.epic_assemblies = <<2, 1, 1>>

----------------------------------------------------------------------------
(* Properties of the breakdown (SpecBreak) *)

\* call number i was made on a material whose process_shares give a number for
\* every flow
OfMaterialWithShares(i) ==
    /\ IsBreakdownEntity(b_calls[i].epic_entity)
    /\ b_calls[i].epic_entity.component_type = "EPiCMaterial"
    /\ b_calls[i].epic_entity.process_shares.k = "dict"
    /\ \A f \in Flows : IsNumber(b_calls[i].epic_entity.process_shares.v[f])

CompositeBreakdownHasShape ==
    \A i \in 1..Len(b_calls) :
        (/\ IsBreakdownEntity(b_calls[i].epic_entity)
         /\ b_calls[i].epic_entity.component_type # "EPiCMaterial") =>
            /\ b_calls[i].exc = "none"
            /\ b_calls[i].ref \in 1..Len(b_dicts)
            /\ Keys(b_dicts[b_calls[i].ref]) = Flows
            /\ \A f \in Flows : Keys(b_dicts[b_calls[i].ref].v[f]) = {"process", "io"}

----------------------------------------------------------------------------
(* Properties of the export (SpecCsv) *)

\* the files written to the end
CompleteFiles == {path \in DOMAIN csv_files : "boq" \in DOMAIN csv_files[path]}

\* the quantity the rows of a block report under the name n
BlockQuantity(block, n) ==
    FnSum([key \in DOMAIN block.rows |->
              IF block.rows[key].name = n THEN block.rows[key].quantity.v ELSE 0])

BlocksQuantity(blocks, n) ==
    SumOver([j \in 1..Len(blocks) |-> BlockQuantity(blocks[j], n)], Len(blocks))

\* the same over the blocks of the loose assemblies and of every built asset
ReportedInBlocks(file, n) ==
    BlocksQuantity(file.assemblies, n)
    + SumOver([i \in 1..Len(file.built_assets) |-> BlocksQuantity(file.built_assets[i].blocks, n)],
              Len(file.built_assets))

\* the total the bill of quantities reports under the name n
ReportedInBoq(file, n) ==
    FnSum([x \in DOMAIN file.boq |-> IF file.boq[x].name = n THEN file.boq[x].total_units.v ELSE 0])

BlockNames(blocks) ==
    UNION {{blocks[j].rows[key].name : key \in DOMAIN blocks[j].rows} : j \in 1..Len(blocks)}

ReportedNames(file) ==
    BlockNames(file.assemblies)
    \cup UNION {BlockNames(file.built_assets[i].blocks) : i \in 1..Len(file.built_assets)}
    \cup {file.boq[x].name : x \in DOMAIN file.boq}

\* C18: in every report written, for every material name, the quantities of the
\* material's rows in the blocks of the loose assemblies and of the built assets
\* add up to the total of the name in the bill of quantities.
BlocksAddUpToBoq ==
    \A path \in CompleteFiles :
        \A n \in ReportedNames(csv_files[path]) :
            ReportedInBlocks(csv_files[path], n) = ReportedInBoq(csv_files[path], n)

\* C18's case: a report with a built asset holding the roof and the slab without
\* units, and the wall loose: steel is reported in both blocks, 4 * 5 + 2 * 2
SteelInAssetAndLoose ==
    \E path \in CompleteFiles :
        LET file == csv_files[path]
        IN  /\ Len(file.built_assets) = 1
            /\ Len(p_ret.epic_inputs) = 2
            /\ p_ret.epic_inputs[1].component_type = "EPiCBuiltAsset"
            /\ p_ret.epic_inputs[1].epic_assemblies = <<3, 2>>
            /\ p_ret.epic_inputs[2] = AssemblyRef(1)
            /\ Len(file.built_assets[1].blocks) = 1
            /\ BlocksQuantity(file.built_assets[1].blocks, "steel") = 20
            /\ BlocksQuantity(file.assemblies, "steel") = 4
            /\ ReportedInBoq(file, "steel") = 24
            /\ ReportedInBoq(file, "steel. galvanised") = 10

\* C19: when the report cannot be written (no folder given, or a folder that does
\* not exist or cannot be written to), print_csv raises nothing and returns a
\* message.
PrintCsvReportsFailure ==
    (/\ csv_ret # None
     /\ \/ csv_ret.folder_location.k # "str"
        \/ csv_ret.folder_location.v[1] \notin WritableFolders) =>
        /\ csv_ret.exc = "none"
        /\ csv_ret.message.k = "str"

----------------------------------------------------------------------------
(* Properties of the text fields (SpecText) *)

\* the text supplied holds a comma
SuppliedWithComma ==
    IF t_in.text.k = "str" THEN \E i \in 1..Len(t_in.text.v) : t_in.text.v[i] = ","
    ELSE IF t_in.text.k = "list"
         THEN \E j \in 1..Len(t_in.text.v) :
                  \E i \in 1..Len(t_in.text.v[j].v) : t_in.text.v[j].v[i] = ","
         ELSE FALSE

\* C20: whatever string or list of strings was supplied for the report name, a
\* built asset's name or comments, an assembly's name, category or comments, or
\* a material's name or comments, the field the export writes holds no comma.
NoCommaWritten ==
    (t_pc = "written" /\ t_written.exc = "none" /\ t_written.val # None) =>
        /\ t_written.val.k = "str"
        /\ \A i \in 1..Len(t_written.val.v) : t_written.val.v[i] # ","

\* C20's case: material comments supplied as a list with commas are written
\* joined, with spaces for the commas
MaterialCommentsFlattened ==
    /\ t_pc = "written"
    /\ t_in.field = "material comments"
    /\ t_in.text = TextList(<<Text(<<",">>), Text(<<"a">>)>>)
    /\ SuppliedWithComma
    /\ t_written = Returned(Text(<<" ", " ", "|", " ", "a">>))

----------------------------------------------------------------------------
(* Properties of the database queries (SpecDb) *)

\* the identifier is a key, a name or a legacy name of the database, as given
\* or without its functional unit
IsKnownMaterial(material_id) ==
    \/ material_id \in DOMAIN DatabaseContents
    \/ \E key \in DOMAIN DatabaseContents :
           \E item \in {material_id, RemoveFuncUnitFromMatName(material_id)} :
               \/ DatabaseContents[key]["name"] = PyStr(item)
               \/ DatabaseContents[key]["Legacy_names"] = PyStr(item)

\* the entry of the material the identifier stands for
KnownEntry(material_id) ==
    IF material_id \in DOMAIN DatabaseContents THEN DatabaseContents[material_id]
    ELSE DatabaseContents[CHOOSE key \in DOMAIN DatabaseContents :
             \E item \in {material_id, RemoveFuncUnitFromMatName(material_id)} :
                 \/ DatabaseContents[key]["name"] = PyStr(item)
                 \/ DatabaseContents[key]["Legacy_names"] = PyStr(item)]

\* the query raised one of the two not-found errors
RaisedNotFound ==
    q_ret.exc \in {"TypeError('Material not found')",
                   "TypeError('Material or material attribute not found')"}

\* C21: a query with a list of attributes for a known material returns a list
\* with one entry per attribute asked for, in order, holding null for each
\* attribute the material lacks, and does not abort; a query in any form for an
\* identifier that is no id, name or legacy name raises the not-found error.
QueryAnswersEveryAttribute ==
    q_ret # None =>
        /\ (IsKnownMaterial(q_ret.material_id) /\ q_ret.material_attributes.k = "list") =>
               /\ q_ret.exc = "none"
               /\ q_ret.val.k = "list"
               /\ Len(q_ret.val.v) = Len(q_ret.material_attributes.v)
               /\ \A i \in 1..Len(q_ret.val.v) :
                      LET attribute == q_ret.material_attributes.v[i]
                          entry == KnownEntry(q_ret.material_id)
                      IN  IF attribute \in DOMAIN entry /\ entry[attribute] # Nan
                          THEN q_ret.val.v[i] = entry[attribute]
                          ELSE q_ret.val.v[i] = None
        /\ ~IsKnownMaterial(q_ret.material_id) => RaisedNotFound

----------------------------------------------------------------------------
(* Properties of the functional units (SpecUnit) *)

\* the units a material or an assembly may have, the corrected forms included
GoodUnits == {"m", "m²", "m³", "kg", "no.", "m2", "m3"}

\* the input is a string that is no unit, in whatever case it is written
IsBadUnit(functional_unit) ==
    /\ functional_unit.k = "str"
    /\ Lower(functional_unit.v[1]) \notin GoodUnits

\* C22: a functional-unit string that is none of m, m², m³, kg, no., m2, m3 is
\* rejected at construction: the construction of the material or of the
\* assembly raises or reports a warning and no object is produced, whatever the
\* other inputs are.
BadUnitRejected ==
    (u_ret # None /\ IsBadUnit(u_ret.functional_unit)) =>
        /\ u_ret.object = None
        /\ u_ret.exc # "none" \/ u_ret.warning # None

----------------------------------------------------------------------------
(* Properties of the units of an assembly (SpecNew) *)

\* the inputs of the constructor that are not null, in order
GivenNonNull == SelectSeq(n_args.selected_geometry, LAMBDA g : g # None)

\* the inputs of the constructor that are neither null nor zero, in order
GivenCounted ==
    SelectSeq(n_args.selected_geometry, LAMBDA g : g # None /\ ~(IsNumber(g) /\ g.v = 0))

\* what an input counts for under the unit 'no.': its value if it is a number,
\* else 1
CountsFor(g) == IF g.k \in {"int", "float"} THEN g.v ELSE 1

\* the sum of what the inputs of the list count for
RECURSIVE SumCounts(_)
SumCounts(inputs) ==
    IF Len(inputs) = 0 THEN 0 ELSE CountsFor(Head(inputs)) + SumCounts(Tail(inputs))

\* total_units and the stored quantities are not negative
UnitsAndQuantitiesNotNegative ==
    /\ n_ret.val.total_units.v >= 0
    /\ \A i \in 1..Len(n_ret.val.epic_materials) : n_ret.val.epic_materials[i][2].v >= 0

\* C23 as stated: total_units and every stored quantity per unit are not
\* negative; total_units is the absolute value of the sum, over the non-null
\* inputs, of the number given or of 1, and individual_units lists these values
\* in input order.
UnitsCountNonNullInputs ==
    (n_ret # None /\ n_ret.exc = "none") =>
        /\ UnitsAndQuantitiesNotNegative
        /\ n_ret.val.total_units.v = Magnitude(SumCounts(GivenNonNull))
        /\ Len(n_ret.val.individual_units) = Len(GivenNonNull)
        /\ \A i \in 1..Len(GivenNonNull) :
               n_ret.val.individual_units[i].v = CountsFor(GivenNonNull[i])

\* C23: the same, individual_units listing the values of the inputs that are
\* neither null nor zero.
UnitsCountNonZeroInputs ==
    (n_ret # None /\ n_ret.exc = "none") =>
        /\ UnitsAndQuantitiesNotNegative
        /\ n_ret.val.total_units.v = Magnitude(SumCounts(GivenNonNull))
        /\ n_ret.val.total_units.v = Magnitude(SumCounts(GivenCounted))
        /\ Len(n_ret.val.individual_units) = Len(GivenCounted)
        /\ \A i \in 1..Len(GivenCounted) :
               n_ret.val.individual_units[i].v = CountsFor(GivenCounted[i])

\* C23's case: a zero, an object, a null and the number -7 make 6 units, the
\* zero and the null are not listed, and a negative quantity per unit is stored
\* without its sign
NegativeInputsCounted ==
    /\ n_ret # None /\ n_ret.exc = "none"
    /\ n_args.selected_geometry = <<PyInt(0), PyObj("point"), None, PyFloat(0 - 7)>>
    /\ n_ret.val.total_units = PyFloat(6)
    /\ n_ret.val.individual_units = <<PyInt(1), PyFloat(0 - 7)>>
    /\ Len(n_args.epic_materials) = 1
    /\ n_args.epic_materials[1][2] = PyFloat(0 - 3)
    /\ n_ret.val.epic_materials[1][2] = PyFloat(3)

----------------------------------------------------------------------------
(* Properties of the shared assemblies (SpecShare) *)

BuiltAssetPeriodIsZero ==
    \A k \in 1..Len(s_objects) :
        s_objects[k].component_type = "EPiCBuiltAsset" =>
            s_objects[k].period_of_analysis = PyInt(0)

\* C26: the recalculated flows of an assembly are calculate_flows(p) for the
\* period p of the operation that wrote it last, and the flows stored in each
\* analysis and built asset stay as aggregated at its construction.
LastWriterWins ==
    /\ \A i \in 1..Len(assemblies) :
           assemblies[i].recalculated_flows = CalculateFlows(assemblies[i], s_last[i]).val
    /\ \A k \in 1..Len(s_objects) : s_objects[k].flows = s_made[k]

\* C26's case: an analysis of the roof at 45 years, then a built asset over the
\* roof: the roof is as the built asset's construction left it, at 100 years,
\* and the analysis still holds the flows of 45 years
AnalysisKeptAfterBuiltAsset ==
    /\ Len(s_objects) = 2
    /\ s_objects[1].component_type = "EPiCAnalysis"
    /\ s_objects[1].period_of_analysis = PyInt(45)
    /\ s_objects[1].epic_assemblies = <<2>>
    /\ s_objects[2].component_type = "EPiCBuiltAsset"
    /\ s_last[2] = PyInt(DefaultPeriodOfAnalysis)
    /\ assemblies[2].recalculated_flows = CalculateFlows(assemblies[2], PyInt(100)).val
    /\ assemblies[2].recalculated_flows # CalculateFlows(assemblies[2], PyInt(45)).val
    /\ s_objects[1].flows.v["recurrent"]
           = CalculateFlows(assemblies[2], PyInt(45)).val.v["recurrent"]
    /\ s_objects[1].flows.v["recurrent"] # assemblies[2].recalculated_flows.v["recurrent"]

----------------------------------------------------------------------------
(* Properties of the by_material breakdown (SpecCalc) *)

\* the sum of bucket b, flow f over the entries of by_material named in names
RECURSIVE SumOfEntries(_, _, _, _)
SumOfEntries(by_material, names, b, f) ==
    IF names = {} THEN 0
    ELSE LET name == CHOOSE n \in names : TRUE
         IN  by_material.v[name].v[b].v[f].v + SumOfEntries(by_material, names \ {name}, b, f)

\* the sum of the quantities of the entries of by_material named in names
RECURSIVE SumOfQuantities(_, _)
SumOfQuantities(by_material, names) ==
    IF names = {} THEN 0
    ELSE LET name == CHOOSE n \in names : TRUE
         IN  by_material.v[name].v["quantity"].v + SumOfQuantities(by_material, names \ {name})

\* the flows dictionary is the sum of its by_material entries, value by value,
\* and the quantities of the entries add up to those of the material list
IsSumOfByMaterial(flows) ==
    /\ \A b \in Buckets, f \in Flows :
           flows.v[b].v[f].v
               = SumOfEntries(flows.v["by_material"], Keys(flows.v["by_material"]), b, f)
    /\ SumOfQuantities(flows.v["by_material"], Keys(flows.v["by_material"]))
           = SumOver([i \in 1..Len(c_asm.epic_materials) |-> c_asm.epic_materials[i][2].v],
                     Len(c_asm.epic_materials))

\* C27: every bucket and flow value of the assembly that calculate_flows returns
\* is the sum of the same value over the by_material entries, and the
\* quantities of the entries add up to the quantities per unit of the material
\* list, for every period, with and without overrides, and when materials share
\* a name.
AssemblyIsSumOfByMaterial ==
    /\ IsSumOfByMaterial(c_asm.flows)
    /\ IsSumOfByMaterial(c_asm.recalculated_flows)
    /\ c_ret.call = "calculate_flows" => IsSumOfByMaterial(c_ret.val)

\* C27's case: steel twice, with an integer and with a float quantity, under both
\* overrides at 45 years: one entry of quantity 5 carries the whole assembly
SharedNameUnderOverrides ==
    /\ c_ret.call = "calculate_flows"
    /\ c_ret.period = PyInt(45)
    /\ c_asm.service_life = PyInt(15)
    /\ c_asm.wastage_override = PyFloat(25)
    /\ Len(c_asm.epic_materials) = 2
    /\ c_asm.epic_materials[1] = <<Steel, PyInt(2)>>
    /\ c_asm.epic_materials[2] = <<Steel, PyFloat(3)>>
    /\ Keys(c_ret.val.v["by_material"]) = {"steel"}
    /\ c_ret.val.v["by_material"].v["steel"].v["quantity"].v = 5
    /\ c_ret.val.v["recurrent"].v["energy"].v > 0
    /\ c_ret.val.v["recurrent"].v["energy"]
           = c_ret.val.v["by_material"].v["steel"].v["recurrent"].v["energy"]

----------------------------------------------------------------------------
(* Properties of the service-life override (SpecNew) *)

\* the service-life input was none or zero
NoServiceLifeGiven == n_args.service_life.k = "none" \/ n_args.service_life.v = 0

\* quantity * quantity per unit * coefficient(flow) * (1 + w) of material number
\* i of the assembly constructed, in hundredths
NewContribution(i, flow) ==
    LET self == n_ret.val
        material == self.epic_materials[i][1]
        w == IF self.wastage_override.k # "none" THEN self.wastage_override.v
             ELSE material.wastage.v
    IN  self.total_units.v * self.epic_materials[i][2].v * material[flow].v * (Scale + w)

\* the replacements of material number i by its own service life
OwnReplacementsOfNew(i) ==
    LET life == n_ret.val.epic_materials[i][1].service_life
    IN  IF life.k = "none" \/ life.v = 0 THEN 0 ELSE Replacements(n_calc.period.v, life.v)

\* C28: a service-life input of 0 or none is no override, while a wastage input
\* of 0 is one: with the input 0 the recurrent flows of a period > 0 come from
\* each material's own service life, and with a nonzero input s every material is
\* replaced as often as |s| says, whatever its own service life.
ServiceLifeZeroIsNoOverride ==
    (n_ret # None /\ n_ret.exc = "none") =>
        /\ n_ret.val.service_life
               = (IF NoServiceLifeGiven THEN None
                  ELSE [n_args.service_life EXCEPT !.v = Magnitude(n_args.service_life.v)])
        /\ (n_args.wastage.k # "none" /\ n_args.wastage.v = 0) =>
               /\ n_ret.val.wastage_override = PyFloat(0)
               /\ \A f \in Flows : n_ret.val.flows.v["initial_wastage"].v[f].v = 0
        /\ n_calc # None =>
               LET n == Len(n_ret.val.epic_materials)
               IN  \A f \in Flows :
                       n_calc.val.v["recurrent"].v[f].v
                           = IF NoServiceLifeGiven
                             THEN SumOver([i \in 1..n |->
                                      NewContribution(i, f) * OwnReplacementsOfNew(i)], n)
                             ELSE SumOver([i \in 1..n |-> NewContribution(i, f)], n)
                                      * Replacements(n_calc.period.v,
                                                     Magnitude(n_args.service_life.v))

\* C28's case: timber with service life 0 and wastage 0 given, at 40 years: the
\* timber is replaced once, by its own 20 years, and nothing is wasted
TimberReplacedByOwnLife ==
    /\ n_ret # None /\ n_ret.exc = "none" /\ n_calc # None
    /\ n_args.service_life = PyInt(0)
    /\ n_args.wastage = PyInt(0)
    /\ n_args.selected_geometry = <<PyInt(5)>>
    /\ n_args.epic_materials = <<<<<<Timber>>, PyFloat(1)>>>>
    /\ n_calc.period = PyInt(40)
    /\ n_calc.val.v["recurrent"].v["energy"].v = 5 * 3 * Scale
    /\ n_calc.val.v["recurrent"].v["energy"] = n_calc.val.v["initial"].v["energy"]
    /\ n_calc.val.v["recurrent_wastage"].v["energy"].v = 0

----------------------------------------------------------------------------
(* Properties of the version search (SpecVerFair) *)

\* the versions of the report that files does not hold
FreeVersions(files) == {c \in 1..MaxVersions : VerPath(c) \notin DOMAIN files}

\* the search stays within the 50 versions, and the last export went to the
\* first free version and left every file that existed as it was, or to
\* version 50 when none was free
VersionSearchIsSound ==
    /\ v_counter \in 1..MaxVersions
    /\ v_pc # "idle" => v_filepath = VerPath(v_counter)
    /\ v_last # None =>
           LET free == FreeVersions(v_last.start)
               written == v_last.filepath[3]
           IN  /\ v_last.steps <= MaxVersions - 1
               /\ v_last.filepath = VerPath(CsvVersion(v_last.start, VerFolder, VerName))
               /\ free # {} =>
                      /\ written \in free
                      /\ \A c \in free : written <= c
                      /\ \A path \in DOMAIN v_last.start : csv_files[path] = v_last.start[path]
               /\ free = {} => written = MaxVersions

\* C29: print_csv writes to the first path that does not exist among report.csv,
\* report_2.csv, ..., report_50.csv, so that no existing report is overwritten
\* while one of the 50 is free; its search loop ends after at most 49 steps; and
\* once all 50 exist every export is written to report_50.csv.
PrintCsvWritesFirstFreeVersion ==
    /\ []VersionSearchIsSound
    /\ (v_pc = "search") ~> (v_pc = "idle")

\* C29's case: 49 versions at the start; the first export wrote report_50.csv
\* and the second, after 49 steps of the loop, wrote over it
FiftiethVersionOverwritten ==
    /\ v_done = 2
    /\ v_pc = "idle"
    /\ FreeVersions(v_last.start) = {}
    /\ v_last.steps = MaxVersions - 1
    /\ v_last.filepath = VerPath(MaxVersions)
    /\ v_last.start[VerPath(MaxVersions)].written_by = 1
    /\ csv_files[VerPath(MaxVersions)].written_by = 2

----------------------------------------------------------------------------
(* Properties of the is_running flag (SpecListFair) *)

\* the flag is set
IsRunning == "is_running" \in DOMAIN sticky /\ sticky["is_running"] = TRUE

\* the flag is set exactly while a regeneration is in progress, and there is at
\* most one; a call that found it set left the list and the flag alone; a call
\* that found it clear left it clear
FlagGuardsRegeneration ==
    /\ Len(l_stack) <= 1
    /\ IsRunning <=> l_stack # <<>>
    /\ l_last # None =>
           IF l_last.found_running
           THEN /\ l_last.items_after = l_last.items_before
                /\ l_last.sticky_after = l_last.sticky_before
                /\ l_last.depth = 1
           ELSE /\ l_last.sticky_after["is_running"] = FALSE
                /\ l_last.depth = 0

\* C30: is_running guards recreate_material_list against re-entry: a call that
\* finds it True changes neither the list nor the flag, at most one regeneration
\* is in progress at any time, a call that found it False leaves it False, also
\* when the regeneration raised, and the flag never stays True.
IsRunningIsReentrancyGuard ==
    /\ []FlagGuardsRegeneration
    /\ IsRunning ~> ~IsRunning

\* C30's case: a call made during a regeneration returned at once, the
\* regeneration then raised, and the flag is clear again
RaisedAfterNestedCall ==
    /\ l_calls = 2
    /\ l_stack = <<>>
    /\ l_last # None
    /\ ~l_last.found_running
    /\ l_last.raised
    /\ l_last.skipped = 1
    /\ l_items = <<"M1", "M5">>
    /\ sticky["is_running"] = FALSE

====
